---------------------------- MODULE Spec2Model ----------------------------
(***************************************************************************)
(* Model of the GitCode PR report tools:                                   *)
(*   src/tools/gitcode_pr_report_site.py  (HTML generator + embedded       *)
(*                                         client script)                  *)
(*   src/tools/gitcode_pr_multi_repo.py   (terminal report)                *)
(*                                                                         *)
(* The module holds several specifications, one per subsystem.  Each       *)
(* specification drives its own group of variables; the other groups stay  *)
(* at their idle value.                                                    *)
(*   SpecInfer     resolution inference (_infer_resolved / inferResolved)  *)
(*   SpecList      fetch_prs_for_user (PR listing, paging, de-duplication) *)
(*   SpecMain      main of the HTML generator (thread pool fan-out)        *)
(*   SpecComments  fetch_comments_for_pr / fetchCommentsForPr              *)
(*   SpecFilter    the page: cards, filter controls, applyFilters          *)
(*   SpecEnrich    fetch_repo_user_data / fetch_files_for_pr (enrichment)  *)
(*   SpecReport    print_report_for_user of the terminal tool              *)
(*   SpecCards     build_html against buildCardView                        *)
(*   SpecThrottle  throttleRequest / fetchJson (SpecThrottleFair: with     *)
(*                 fairness of the timers)                                 *)
(*   SpecListFair  SpecList under fair scheduling of its steps             *)
(*   SpecTuning    applyFetchTuning / noteSuccess / noteRateLimit          *)
(*   SpecRefresh   refreshFromApi / fetchAllData / createLimiter           *)
(*                 (SpecRefreshFair: every request settles)                *)
(*                                                                         *)
(* Text is modelled as a sequence of one-character strings, so that        *)
(* lower-casing, trimming, prefix and substring tests are computed.        *)
(***************************************************************************)
EXTENDS Integers, Sequences, FiniteSets, TLC

VARIABLES
  \* ---- SpecInfer
  raw_comment,     \* the raw comment handed to the three inference functions
  infer_site,      \* result of _infer_resolved (gitcode_pr_report_site.py)
  infer_multi,     \* result of _infer_resolved (gitcode_pr_multi_repo.py)
  infer_client,    \* result of inferResolved (client script)
  infer_pc,        \* "input" | "done"
  \* ---- SpecList: one call of fetch_prs_for_user
  list_variant,    \* "site" (gitcode_pr_report_site.py) | "multi" (gitcode_pr_multi_repo.py)
  repo_states,     \* repo_cfg.states
  per_page,        \* repo_cfg.per_page
  max_pages,       \* max_pages argument of the multi variant (0 stands for None)
  states,          \* the local `states` that the for loop runs over
  state_idx,       \* position of the for loop in `states`
  page,            \* page
  data_len,        \* len(data) of the page being processed
  data_idx,        \* records of that page already processed
  all_prs,         \* all_prs
  seen_numbers,    \* seen_numbers
  list_pc,         \* "request" | "records" | "done" | "raised" | "idle"
  first_kept,      \* history: number -> <<first record not skipped, its state pass>>
  cross_dup,       \* history: a later state pass repeated a number with other fields
  last_raw,        \* history: the raw record `pr` of the last iteration of `for pr in data`
  \* ---- SpecMain: main() of the HTML generator
  tasks,           \* tasks: the (repo_name, username) pairs that were submitted
  future,          \* pair -> state of its future: "pending" | "running" | "returned" | "raised"
  future_value,    \* pair -> the list fetch_repo_user_data returned
  yielded,         \* the futures as_completed has handed to the loop
  prs,             \* main's local `prs`
  repo_user_prs,   \* repo_user_prs: pair -> <<>> (no entry) or <<list>>
  main_pc,         \* "pool" | "written" | "idle"
  \* ---- SpecComments: fetch_comments_for_pr / fetchCommentsForPr
  cm_variant,      \* "site" | "client" | "multi": which copy runs
  cm_page,         \* page
  cm_data_len,     \* len(data) of the page being processed
  cm_data_idx,     \* records of that page already processed
  comments,        \* comments: the list being built
  cm_pc,           \* "request" | "page" | "done" | "raised" | "idle"
  raw_seen,        \* history: the raw comments received, in the order received
  \* ---- SpecFilter: the page's filter engine
  dataset,         \* the enriched data the page was generated from: user -> PR list
  controls,        \* the filter controls (checkboxes, inputs, selects)
  dom,             \* the user blocks with their PR cards and review items
  stats,           \* the four summary counters (refreshStats)
  filter_summary,  \* the filter summary line (updateSummary)
  keywordDebounce, \* TRUE while the timer of the keyword inputs is armed
  filter_steps,    \* number of control events handled so far
  \* ---- SpecEnrich: the per-PR loop of fetch_repo_user_data
  en_variant,      \* "site" (Python) | "client" (the page's script)
  code_stats_enabled, \* code_stats_enabled / CODE_STATS_ENABLED
  en_prs,          \* prs: the PRInfo objects the lister returned (mutated in place)
  en_idx,          \* position of `for pr in prs`
  en_result,       \* result
  en_pc,           \* "comments" | "issues" | "files" | "files_return" | "done" | "raised" | "idle"
  f_page,          \* fetch_files_for_pr: page
  total_add,       \* fetch_files_for_pr: total_add
  total_del,       \* fetch_files_for_pr: total_del
  total_files,     \* fetch_files_for_pr: total_files
  f_stats,         \* fetch_files_for_pr: stats
  seen_items,      \* fetch_files_for_pr: seen_items
  f_last,          \* history: the answer to the last files request of the running call
  en_got,          \* history: per PR, what its requests delivered (items: during the
                   \* files call; partial: total_files when a files request failed)
  \* ---- SpecReport: print_report_for_user of the terminal tool
  rp_prs,          \* prs
  only_unresolved, \* only_unresolved
  hide_clean_prs,  \* hide_clean_prs
  visible_prs,     \* visible_prs
  rp_idx,          \* position of `for pr in visible_prs`
  printed,         \* the PR entries printed so far, each with the comments listed
  rp_pc,           \* "call" | "prs" | "returned" | "idle"
  \* ---- SpecCards: build_html against buildCardView of the page script
  cv_data,    \* the enriched dataset of the one repository: users with their PRs
  cv_ctl,     \* the filter controls applied to both pages
  cv_server,  \* the cards as build_html wrote them
  cv_client,  \* the cards as buildCardView rebuilt them
  cv_pc,      \* per page "none" | "built" | "filtered"
  \* ---- SpecThrottle: throttleRequest / fetchJson of the page script
  th_now,             \* Date.now()
  lastRequestAt,      \* lastRequestAt
  rateLimitUntil,     \* rateLimitUntil
  requestIntervalMs,  \* requestIntervalMs
  successStreak,      \* successStreak
  throttleQueue,      \* throttleQueue: the gate made by the latest caller (0: Promise.resolve())
  th_settled,         \* the gates that are resolved
  th_w,               \* per worker: where its fetchJson call stands
  th_log,             \* history: arrivals, admissions, releases, requests issued, rate limits noted
  \* ---- SpecTuning: SpecTuning: the adaptive request interval (applyFetchTuning, noteSuccess, noteRateLimit)
  tn_base,      \* baseRequestIntervalMs, in units of 1/Scale ms
  tn_interval,  \* requestIntervalMs, in units of 1/Scale ms
  tn_streak,    \* successStreak
  tn_event,     \* history: the last event, "load" | "tuning" | "success" | "ratelimit"
  tn_since,     \* history: successes since the last rate-limit event, decrease or tuning change
  tn_limits,    \* history: number of rate-limit events so far
  \* ---- SpecRefresh: SpecRefresh: live refresh of the page (refreshFromApi, fetchAllData, createLimiter)
  rf_users,  \* getEffectiveUsers(): the configured users
  rf_limit,  \* [repo |-> repoConcurrency, detail |-> detailConcurrency]
  rf_btn,    \* refreshBtn.disabled
  rf_count,  \* refreshFromApi calls made so far; the calls are numbered in this order
  rf_pc,     \* per call: "none" | "fetching" | "rendered" | "failed"
  rf_tasks,  \* per call: its (repo, user) tasks, [user, st, details]
  rf_repo,   \* per call: repoLimiter, [active, queue, started]
  rf_det,    \* per call: detailLimiter, [active, queue, started, submitted]
  rf_data,   \* per call: data[repoName], user -> number of PRs stored
  rf_page,   \* what buildCardView drew last: [by, data]
  rf_cache   \* what saveCachedData stored last: [by, data]

inferVars == <<raw_comment, infer_site, infer_multi, infer_client, infer_pc>>
listVars == <<list_variant, repo_states, per_page, max_pages, states, state_idx,
              page, data_len, data_idx, all_prs, seen_numbers, list_pc,
              first_kept, cross_dup, last_raw>>

mainVars == <<tasks, future, future_value, yielded, prs, repo_user_prs, main_pc>>

commentVars == <<cm_variant, cm_page, cm_data_len, cm_data_idx, comments, cm_pc, raw_seen>>

filterVars == <<dataset, controls, dom, stats, filter_summary, keywordDebounce, filter_steps>>

enrichVars == <<en_variant, code_stats_enabled, en_prs, en_idx, en_result, en_pc,
                f_page, total_add, total_del, total_files, f_stats, seen_items,
                f_last, en_got>>

reportVars == <<rp_prs, only_unresolved, hide_clean_prs, visible_prs, rp_idx, printed, rp_pc>>

cardsVars == <<cv_data, cv_ctl, cv_server, cv_client, cv_pc>>

throttleVars == <<th_now, lastRequestAt, rateLimitUntil, requestIntervalMs, successStreak, throttleQueue, th_settled, th_w, th_log>>

tuningVars == <<tn_base, tn_interval, tn_streak, tn_event, tn_since, tn_limits>>

refreshVars == <<rf_users, rf_limit, rf_btn, rf_count, rf_pc, rf_tasks, rf_repo, rf_det, rf_data, rf_page, rf_cache>>

vars == <<inferVars, listVars, mainVars, commentVars, filterVars, enrichVars, reportVars, cardsVars, throttleVars, tuningVars, refreshVars>>

\* what each specification leaves alone
notInfer     == <<listVars, mainVars, commentVars, filterVars, enrichVars, reportVars, cardsVars, throttleVars, tuningVars, refreshVars>>
notList      == <<inferVars, mainVars, commentVars, filterVars, enrichVars, reportVars, cardsVars, throttleVars, tuningVars, refreshVars>>
notMain      == <<inferVars, listVars, commentVars, filterVars, enrichVars, reportVars, cardsVars, throttleVars, tuningVars, refreshVars>>
notComments  == <<inferVars, listVars, mainVars, filterVars, enrichVars, reportVars, cardsVars, throttleVars, tuningVars, refreshVars>>
notFilter    == <<inferVars, listVars, mainVars, commentVars, enrichVars, reportVars, cardsVars, throttleVars, tuningVars, refreshVars>>
notEnrich    == <<inferVars, listVars, mainVars, commentVars, filterVars, reportVars, cardsVars, throttleVars, tuningVars, refreshVars>>
notReport    == <<inferVars, listVars, mainVars, commentVars, filterVars, enrichVars, cardsVars, throttleVars, tuningVars, refreshVars>>
notCards     == <<inferVars, listVars, mainVars, commentVars, filterVars, enrichVars, reportVars, throttleVars, tuningVars, refreshVars>>
notThrottle  == <<inferVars, listVars, mainVars, commentVars, filterVars, enrichVars, reportVars, cardsVars, tuningVars, refreshVars>>
notTuning    == <<inferVars, listVars, mainVars, commentVars, filterVars, enrichVars, reportVars, cardsVars, throttleVars, refreshVars>>
notRefresh   == <<inferVars, listVars, mainVars, commentVars, filterVars, enrichVars, reportVars, cardsVars, throttleVars, tuningVars>>

-----------------------------------------------------------------------------
(* Idle values: a specification keeps the groups it does not drive here *)

IdleInfer ==
  /\ raw_comment = <<>>
  /\ infer_site = "idle"
  /\ infer_multi = "idle"
  /\ infer_client = "idle"
  /\ infer_pc = "idle"

IdleList ==
  /\ list_variant = "idle"
  /\ repo_states = <<>>
  /\ per_page = 0
  /\ max_pages = 0
  /\ states = <<>>
  /\ state_idx = 0
  /\ page = 0
  /\ data_len = 0
  /\ data_idx = 0
  /\ all_prs = <<>>
  /\ seen_numbers = {}
  /\ list_pc = "idle"
  /\ first_kept = <<>>
  /\ cross_dup = FALSE
  /\ last_raw = <<>>

IdleMain ==
  /\ tasks = {}
  /\ future = <<>>
  /\ future_value = <<>>
  /\ yielded = {}
  /\ prs = <<>>
  /\ repo_user_prs = <<>>
  /\ main_pc = "idle"

IdleComments ==
  /\ cm_variant = "idle"
  /\ cm_page = 0
  /\ cm_data_len = 0
  /\ cm_data_idx = 0
  /\ comments = <<>>
  /\ cm_pc = "idle"
  /\ raw_seen = <<>>

IdleFilter ==
  /\ dataset = <<>>
  /\ controls = <<>>
  /\ dom = <<>>
  /\ stats = <<>>
  /\ filter_summary = <<>>
  /\ keywordDebounce = FALSE
  /\ filter_steps = 0

\* an answer of the files endpoint: kind is "list", "dict", "other", "falsy",
\* or "none" while no request of the running call was answered
Answer(kind, items) == [kind |-> kind, items |-> items]
NoAnswer == Answer("none", <<>>)

IdleEnrich ==
  /\ en_variant = "idle"
  /\ code_stats_enabled = FALSE
  /\ en_prs = <<>>
  /\ en_idx = 0
  /\ en_result = <<>>
  /\ en_pc = "idle"
  /\ f_page = 0
  /\ total_add = 0
  /\ total_del = 0
  /\ total_files = 0
  /\ f_stats = <<>>
  /\ seen_items = {}
  /\ f_last = NoAnswer
  /\ en_got = <<>>

IdleReport ==
  /\ rp_prs = <<>>
  /\ only_unresolved = FALSE
  /\ hide_clean_prs = FALSE
  /\ visible_prs = <<>>
  /\ rp_idx = 0
  /\ printed = <<>>
  /\ rp_pc = "idle"

IdleCards ==
  /\ cv_data = <<>>
  /\ cv_ctl = <<>>
  /\ cv_server = <<>>
  /\ cv_client = <<>>
  /\ cv_pc = "idle"

IdleThrottle ==
  /\ th_now = 0
  /\ lastRequestAt = 0
  /\ rateLimitUntil = 0
  /\ requestIntervalMs = 0
  /\ successStreak = 0
  /\ throttleQueue = 0
  /\ th_settled = {}
  /\ th_w = <<>>
  /\ th_log = <<>>

IdleTuning ==
  /\ tn_base = 0
  /\ tn_interval = 0
  /\ tn_streak = 0
  /\ tn_event = "idle"
  /\ tn_since = 0
  /\ tn_limits = 0

IdleRefresh ==
  /\ rf_users = <<>>
  /\ rf_limit = <<>>
  /\ rf_btn = FALSE
  /\ rf_count = 0
  /\ rf_pc = <<>>
  /\ rf_tasks = <<>>
  /\ rf_repo = <<>>
  /\ rf_det = <<>>
  /\ rf_data = <<>>
  /\ rf_page = <<>>
  /\ rf_cache = <<>>

IdleNotInfer    == IdleList /\ IdleMain /\ IdleComments /\ IdleFilter /\ IdleEnrich /\ IdleReport /\ IdleCards /\ IdleThrottle /\ IdleTuning /\ IdleRefresh
IdleNotList     == IdleInfer /\ IdleMain /\ IdleComments /\ IdleFilter /\ IdleEnrich /\ IdleReport /\ IdleCards /\ IdleThrottle /\ IdleTuning /\ IdleRefresh
IdleNotMain     == IdleInfer /\ IdleList /\ IdleComments /\ IdleFilter /\ IdleEnrich /\ IdleReport /\ IdleCards /\ IdleThrottle /\ IdleTuning /\ IdleRefresh
IdleNotComments == IdleInfer /\ IdleList /\ IdleMain /\ IdleFilter /\ IdleEnrich /\ IdleReport /\ IdleCards /\ IdleThrottle /\ IdleTuning /\ IdleRefresh
IdleNotFilter   == IdleInfer /\ IdleList /\ IdleMain /\ IdleComments /\ IdleEnrich /\ IdleReport /\ IdleCards /\ IdleThrottle /\ IdleTuning /\ IdleRefresh
IdleNotEnrich   == IdleInfer /\ IdleList /\ IdleMain /\ IdleComments /\ IdleFilter /\ IdleReport /\ IdleCards /\ IdleThrottle /\ IdleTuning /\ IdleRefresh
IdleNotReport   == IdleInfer /\ IdleList /\ IdleMain /\ IdleComments /\ IdleFilter /\ IdleEnrich /\ IdleCards /\ IdleThrottle /\ IdleTuning /\ IdleRefresh
IdleNotCards    == IdleInfer /\ IdleList /\ IdleMain /\ IdleComments /\ IdleFilter /\ IdleEnrich /\ IdleReport /\ IdleThrottle /\ IdleTuning /\ IdleRefresh
IdleNotThrottle == IdleInfer /\ IdleList /\ IdleMain /\ IdleComments /\ IdleFilter /\ IdleEnrich /\ IdleReport /\ IdleCards /\ IdleTuning /\ IdleRefresh
IdleNotTuning   == IdleInfer /\ IdleList /\ IdleMain /\ IdleComments /\ IdleFilter /\ IdleEnrich /\ IdleReport /\ IdleCards /\ IdleThrottle /\ IdleRefresh
IdleNotRefresh  == IdleInfer /\ IdleList /\ IdleMain /\ IdleComments /\ IdleFilter /\ IdleEnrich /\ IdleReport /\ IdleCards /\ IdleThrottle /\ IdleTuning

-----------------------------------------------------------------------------
(* Text helpers *)

None == "None"

UpperChars == <<"A","B","C","D","E","F","G","H","I","J","K","L","M",
                "N","O","P","Q","R","S","T","U","V","W","X","Y","Z">>
LowerChars == <<"a","b","c","d","e","f","g","h","i","j","k","l","m",
                "n","o","p","q","r","s","t","u","v","w","x","y","z">>

\* str.lower() / String.prototype.toLowerCase() on one character
UpperSet == {UpperChars[i] : i \in 1..Len(UpperChars)}
LowerOf == [c \in UpperSet |->
              LowerChars[CHOOSE i \in 1..Len(UpperChars) : UpperChars[i] = c]]
LowerChar(c) == IF c \in UpperSet THEN LowerOf[c] ELSE c

\* str.lower() / toLowerCase() on a text
Lower(s) == [i \in 1..Len(s) |-> LowerChar(s[i])]

\* str.startswith(p)
StartsWith(s, p) ==
  /\ Len(p) <= Len(s)
  /\ \A i \in 1..Len(p) : s[i] = p[i]

\* String.prototype.includes(k): k occurs in s as a contiguous run
Includes(s, k) ==
  \E off \in 0..(Len(s) - Len(k)) :
     \A i \in 1..Len(k) : s[off + i] = k[i]

IsSpace(c) == c = " "

\* str.strip() / String.prototype.trim()
RECURSIVE LStrip(_)
LStrip(s) == IF s # <<>> /\ IsSpace(Head(s)) THEN LStrip(Tail(s)) ELSE s
RECURSIVE RStrip(_)
RStrip(s) ==
  IF s # <<>> /\ IsSpace(s[Len(s)]) THEN RStrip(SubSeq(s, 1, Len(s) - 1)) ELSE s
Strip(s) == RStrip(LStrip(s))

-----------------------------------------------------------------------------
(* JSON values of the API, tagged by their type *)

JBool(b) == [t |-> "bool", v |-> b]
JStr(s)  == [t |-> "str",  v |-> s]
JNum(n)  == [t |-> "num",  v |-> n]
JNull    == [t |-> "null", v |-> 0]
Absent   == [t |-> "absent", v |-> 0]     \* key not in the object

IsBool(x) == x.t = "bool"
IsStr(x)  == x.t = "str"

-----------------------------------------------------------------------------
(* Resolution inference *)

w_true       == <<"t","r","u","e">>
w_1          == <<"1">>
w_yes        == <<"y","e","s">>
w_resolved   == <<"r","e","s","o","l","v","e","d">>
w_false      == <<"f","a","l","s","e">>
w_0          == <<"0">>
w_no         == <<"n","o">>
w_unresolved == <<"u","n","r","e","s","o","l","v","e","d">>
w_done       == <<"d","o","n","e">>
w_open       == <<"o","p","e","n">>
w_todo       == <<"t","o","d","o">>

\* the three possible results: True, False, None / null
R_TRUE  == "true"
R_FALSE == "false"
Unknown == "null"
TriBool(b) == IF b THEN R_TRUE ELSE R_FALSE

\* A variant with the precedence reversed (status consulted before resolved).
infer_resolved_status_first(comment) ==
  LET status == comment.status
      val == comment.resolved
  IN IF IsStr(status) /\ Lower(status.v) \in {w_resolved, w_done} THEN R_TRUE
     ELSE IF IsStr(status) /\ Lower(status.v) \in {w_unresolved, w_open, w_todo}
          THEN R_FALSE
     ELSE IF IsBool(val) THEN TriBool(val.v)
     ELSE IF IsStr(val) /\ Lower(val.v) \in {w_true, w_1, w_yes, w_resolved}
          THEN R_TRUE
     ELSE IF IsStr(val) /\ Lower(val.v) \in {w_false, w_0, w_no, w_unresolved}
          THEN R_FALSE
     ELSE Unknown

\* _infer_resolved, gitcode_pr_report_site.py
_infer_resolved(comment) ==
  LET val == comment.resolved
      status == comment.status
      fromStatus ==
        IF IsStr(status)
        THEN LET v == Lower(status.v)
             IN IF v \in {w_resolved, w_done} THEN R_TRUE
                ELSE IF v \in {w_unresolved, w_open, w_todo} THEN R_FALSE
                ELSE Unknown
        ELSE Unknown
  IN IF val.t # "absent"                       \* "resolved" in comment
     THEN IF IsBool(val) THEN TriBool(val.v)
          ELSE IF IsStr(val)
               THEN LET v == Lower(val.v)
                    IN IF v \in {w_true, w_1, w_yes, w_resolved} THEN R_TRUE
                       ELSE IF v \in {w_false, w_0, w_no, w_unresolved} THEN R_FALSE
                       ELSE fromStatus
               ELSE fromStatus
     ELSE fromStatus

\* _infer_resolved, gitcode_pr_multi_repo.py
_infer_resolved_multi(comment) ==
  LET val == comment.resolved
      status == comment.status
      fromStatus ==
        IF IsStr(status)
        THEN LET v == Lower(status.v)
             IN IF v \in {w_resolved, w_done} THEN R_TRUE
                ELSE IF v \in {w_unresolved, w_open, w_todo} THEN R_FALSE
                ELSE Unknown
        ELSE Unknown
  IN IF val.t # "absent"
     THEN IF IsBool(val) THEN TriBool(val.v)
          ELSE IF IsStr(val)
               THEN LET v == Lower(val.v)
                    IN IF v \in {w_true, w_1, w_yes, w_resolved} THEN R_TRUE
                       ELSE IF v \in {w_false, w_0, w_no, w_unresolved} THEN R_FALSE
                       ELSE fromStatus
               ELSE fromStatus
     ELSE fromStatus

\* inferResolved, client script
inferResolved(comment) ==
  LET val == comment.resolved
      status == comment.status               \* comment?.status
      fromStatus ==
        IF IsStr(status)                       \* typeof status === 'string'
        THEN LET v == Lower(status.v)
             IN IF v \in {w_resolved, w_done} THEN R_TRUE
                ELSE IF v \in {w_unresolved, w_open, w_todo} THEN R_FALSE
                ELSE Unknown
        ELSE Unknown
  IN IF val.t # "absent"                       \* hasOwnProperty(comment, 'resolved')
     THEN IF IsBool(val) THEN TriBool(val.v)
          ELSE IF IsStr(val)
               THEN LET v == Lower(val.v)
                    IN IF v \in {w_true, w_1, w_yes, w_resolved} THEN R_TRUE
                       ELSE IF v \in {w_false, w_0, w_no, w_unresolved} THEN R_FALSE
                       ELSE fromStatus
               ELSE fromStatus
     ELSE fromStatus

\* Raw values the API may put under `resolved` and `status`.
ResolvedInputs ==
  { Absent, JNull, JBool(TRUE), JBool(FALSE), JNum(1), JNum(0),
    JStr(w_true), JStr(<<"T","R","U","E">>), JStr(<<"T","r","u","e">>),
    JStr(w_1), JStr(w_yes), JStr(<<"Y","e","s">>), JStr(w_resolved),
    JStr(<<"R","e","s","o","l","v","e","d">>),
    JStr(w_false), JStr(<<"F","A","L","S","E">>), JStr(w_0), JStr(w_no),
    JStr(<<"N","O">>), JStr(w_unresolved),
    JStr(<<"U","n","r","e","s","o","l","v","e","d">>),
    JStr(<<>>), JStr(<<"m","a","y","b","e">>), JStr(w_done), JStr(w_open),
    JStr(<<" ","t","r","u","e">>) }

StatusInputs ==
  { Absent, JNull, JBool(TRUE), JNum(1),
    JStr(w_resolved), JStr(<<"R","E","S","O","L","V","E","D">>), JStr(w_done),
    JStr(<<"D","o","n","e">>),
    JStr(w_unresolved), JStr(w_open), JStr(<<"O","p","e","n">>), JStr(w_todo),
    JStr(<<"T","O","D","O">>),
    JStr(<<>>), JStr(w_true), JStr(w_false), JStr(<<"c","l","o","s","e","d">>) }

-----------------------------------------------------------------------------
(* PR listing: fetch_prs_for_user *)

MaxPrNumber  == 2      \* PR numbers 1..MaxPrNumber
MaxPerPage   == 2      \* per_page is 1 or MaxPerPage (the code allows 1..100)
MaxListPages == 2      \* the API serves a short page at this page at the latest

t_fix == <<"f","i","x">>
t_wip == <<" ","W","i","p",":","x">>
t_wip_feature == <<"w","i","p","_","f">>
t_bracket_wip == <<"[","W","I","P","]","x">>
t_bracket_open == <<"[","w","i","p"," ","x">>
t_multiwipe == <<"M","u","w","i","p","e">>
w_wip     == <<"w","i","p">>
w_wip_br  == <<"[","w","i","p","]">>
w_wip_col == <<"w","i","p",":">>

\* A variant that tests the title as it came, without strip() and lower().
is_wip_title_verbatim(title) ==
  StartsWith(title, w_wip) \/ StartsWith(title, w_wip_br) \/ StartsWith(title, w_wip_col)

\* is_wip_title
is_wip_title(title) ==
  IF title = <<>> THEN FALSE
  ELSE LET t == Lower(Strip(title))
       IN StartsWith(t, w_wip) \/ StartsWith(t, w_wip_br) \/ StartsWith(t, w_wip_col)

\* raw PR records the list endpoint may return
RawTitles == {<<>>, t_fix, t_wip, t_wip_feature, t_bracket_wip, t_bracket_open, t_multiwipe}

RawPrs ==
  [ number : 1..MaxPrNumber,
    title  : {t_fix},
    state  : {"open", "merged"},
    draft  : BOOLEAN,
    work_in_progress : BOOLEAN ]
  \cup
  [ number : 1..MaxPrNumber,
    title  : RawTitles,
    state  : {"open"},
    draft  : {FALSE},
    work_in_progress : {FALSE} ]

\* PRInfo(...) built from a raw record (the fields that listing fills)
PRInfo(pr) == [number |-> pr.number, title |-> pr.title, state |-> pr.state]

\* the WIP / draft test of the site variant; the multi variant has none
SkippedAsWip(variant, pr) ==
  /\ variant = "site"
  /\ (pr.work_in_progress \/ pr.draft \/ is_wip_title(pr.title))

\* `if "all" in states and len(states) > 1: states = ["all"]` (site variant only)
CollapseStates(variant, sts) ==
  IF variant = "site" /\ (\E i \in 1..Len(sts) : sts[i] = "all") /\ Len(sts) > 1
  THEN <<"all">>
  ELSE sts

StatesConfigs ==
  { <<"open">>, <<"open", "merged">>, <<"open", "all">> }


\* state on entry of the first iteration of `for state in states`
InitList ==
  /\ list_variant \in {"site", "multi"}
  /\ repo_states \in StatesConfigs
  /\ per_page \in {1, MaxPerPage}
  /\ max_pages \in (IF list_variant = "multi" THEN {0, 1} ELSE {0})
  /\ states = CollapseStates(list_variant, repo_states)
  /\ state_idx = 1
  /\ page = 1
  /\ data_len = 0
  /\ data_idx = 0
  /\ all_prs = <<>>
  /\ seen_numbers = {}
  /\ list_pc = "request"
  /\ first_kept = [n \in 1..MaxPrNumber |-> <<>>]
  /\ cross_dup = FALSE
  /\ last_raw = <<>>
  /\ IdleNotList

listConfig == <<list_variant, repo_states, per_page, max_pages, states>>

\* `break` out of `while True`: the for loop takes the next state or the
\* function returns all_prs
BreakToNextState ==
  /\ page' = 1
  /\ data_len' = 0
  /\ data_idx' = 0
  /\ IF state_idx < Len(states)
     THEN state_idx' = state_idx + 1 /\ list_pc' = "request"
     ELSE state_idx' = state_idx /\ list_pc' = "done"

\* multi variant: `if max_pages is not None and page > max_pages: break`
ListMaxPages ==
  /\ list_pc = "request"
  /\ list_variant = "multi" /\ max_pages # 0 /\ page > max_pages
  /\ BreakToNextState
  /\ UNCHANGED <<listConfig, all_prs, seen_numbers, first_kept, cross_dup, last_raw, notList>>

PageCapOk == ~(list_variant = "multi" /\ max_pages # 0 /\ page > max_pages)

\* gitcode_get raises (non-200 answer or network error): the call is aborted
ListRequestRaises ==
  /\ list_pc = "request" /\ PageCapOk
  /\ list_pc' = "raised"
  /\ UNCHANGED <<listConfig, state_idx, page, data_len, data_idx, all_prs,
                 seen_numbers, first_kept, cross_dup, last_raw, notList>>

\* the answer is not a list, or an empty list: `break`
ListRequestEmpty ==
  /\ list_pc = "request" /\ PageCapOk
  /\ BreakToNextState
  /\ UNCHANGED <<listConfig, all_prs, seen_numbers, first_kept, cross_dup, last_raw, notList>>

\* the answer is a list of n >= 1 records
ListRequestPage ==
  /\ list_pc = "request" /\ PageCapOk
  /\ \E n \in 1..per_page :
        /\ (page >= MaxListPages => n < per_page)
        /\ data_len' = n
  /\ data_idx' = 0
  /\ list_pc' = "records"
  /\ UNCHANGED <<listConfig, state_idx, page, all_prs, seen_numbers,
                 first_kept, cross_dup, last_raw, notList>>

\* A variant that never finds a number in seen_numbers.
AlreadySeen_never(num, seen) == FALSE

\* `if num in seen_numbers: continue`
AlreadySeen(num, seen) == num \in seen

\* one iteration of `for pr in data`
ListRecord ==
  /\ list_pc = "records" /\ data_idx < data_len
  /\ \E pr \in RawPrs :
       LET num == pr.number
           skip == SkippedAsWip(list_variant, pr)
           dup == AlreadySeen(num, seen_numbers)
       IN /\ IF skip \/ dup
             THEN UNCHANGED <<all_prs, seen_numbers>>
             ELSE /\ seen_numbers' = seen_numbers \cup {num}
                  /\ all_prs' = Append(all_prs, PRInfo(pr))
          /\ IF skip
             THEN UNCHANGED <<first_kept, cross_dup>>
             ELSE /\ cross_dup' =
                       (cross_dup \/ (/\ first_kept[num] # <<>>
                                       /\ first_kept[num][1].pass # state_idx
                                       /\ first_kept[num][1].pr # PRInfo(pr)))
                  /\ first_kept' =
                       IF first_kept[num] = <<>>
                       THEN [first_kept EXCEPT
                               ![num] = <<[pr |-> PRInfo(pr), pass |-> state_idx]>>]
                       ELSE first_kept
       /\ last_raw' = pr
  /\ data_idx' = data_idx + 1
  /\ UNCHANGED <<listConfig, state_idx, page, data_len, list_pc, notList>>

\* after the last record: `if len(data) < per_page: break`, else `page += 1`
ListPageEnd ==
  /\ list_pc = "records" /\ data_idx = data_len
  /\ IF data_len < per_page
     THEN BreakToNextState
     ELSE /\ page' = page + 1
          /\ list_pc' = "request"
          /\ data_len' = 0 /\ data_idx' = 0
          /\ UNCHANGED state_idx
  /\ UNCHANGED <<listConfig, all_prs, seen_numbers, first_kept, cross_dup, last_raw, notList>>

NextList ==
  \/ ListMaxPages
  \/ ListRequestRaises
  \/ ListRequestEmpty
  \/ ListRequestPage
  \/ ListRecord
  \/ ListPageEnd

SpecList == InitList /\ [][NextList]_vars

(* ---- C1 ---- *)
NumbersOf(l) == {l[i].number : i \in 1..Len(l)}

\* C1: the list built by fetch_prs_for_user never holds two PRs with one
\* number; every number that was received at least once and not skipped is in
\* the list exactly once, with the fields of its first occurrence that was not
\* skipped, whether it came again in a later state pass or a later page.
C1_DedupFirstSeen ==
  /\ \A i, j \in 1..Len(all_prs) : all_prs[i].number = all_prs[j].number => i = j
  /\ list_pc # "idle" =>
       \A n \in 1..MaxPrNumber :
          /\ first_kept[n] # <<>> =>
               \E i \in 1..Len(all_prs) : all_prs[i] = first_kept[n][1].pr
          /\ first_kept[n] = <<>> => n \notin NumbersOf(all_prs)

\* the call returned after a number came, not skipped, in two state passes,
\* a later occurrence carrying other fields than the first
C1_Witness ==
  /\ list_pc = "done"
  /\ list_variant = "site"
  /\ cross_dup
  /\ Len(all_prs) >= 2

(* ---- C11 ---- *)
\* the pattern /^\s*\[?wip\]?:?/i : optional white space, an optional "[",
\* then "wip" in any case; the optional "]" and ":" after it always match
MatchesWipPattern(title) ==
  LET t == Lower(LStrip(title))
      u == IF t # <<>> /\ Head(t) = "[" THEN Tail(t) ELSE t
  IN StartsWith(u, w_wip)

\* the title, without leading white space and in lower case, starts with
\* "wip" or with "[wip]"
HasWipPrefix(title) ==
  LET t == Lower(LStrip(title))
  IN StartsWith(t, w_wip) \/ StartsWith(t, w_wip_br)

\* one iteration of `for pr in data` of the HTML generator's lister
SiteRecordStep ==
  /\ list_variant = "site"
  /\ list_pc = "records"
  /\ data_idx' = data_idx + 1

\* the iteration left the record out / appended it
RecordExcluded == all_prs' = all_prs
RecordListed == all_prs' = Append(all_prs, PRInfo(last_raw'))

\* C11 as stated: every record whose title matches /^\s*\[?wip\]?:?/i, or that
\* carries draft=true or work_in_progress=true, is left out of the listed
\* result, and every other record is eligible (listed unless its number was
\* seen before).
C11_WipPatternExcluded ==
  [][SiteRecordStep =>
       LET pr == last_raw'
           wip == MatchesWipPattern(pr.title) \/ pr.draft \/ pr.work_in_progress
       IN /\ wip => RecordExcluded
          /\ (~wip /\ pr.number \notin seen_numbers) => RecordListed]_vars

\* C11: in the HTML generator's lister a record is left out of the listed
\* result iff its title, trimmed and lower-cased, starts with "wip" or "[wip]",
\* or it carries draft=true or work_in_progress=true, or its number was seen
\* before; every other record is appended. A title that starts with "[wip"
\* without the closing bracket, or that holds "wip" later on, is listed.
C11_WipPrefixExcluded ==
  [][SiteRecordStep =>
       LET pr == last_raw'
           wip == HasWipPrefix(pr.title) \/ pr.draft \/ pr.work_in_progress
       IN /\ wip => RecordExcluded
          /\ (~wip /\ pr.number \notin seen_numbers) => RecordListed]_vars

\* the lister left out a record titled "wip_f" after it listed one PR titled
\* "Muwipe" and one titled "[wip x"
C11_Witness ==
  /\ list_variant = "site"
  /\ last_raw # <<>>
  /\ last_raw.title = t_wip_feature
  /\ \A i \in 1..Len(all_prs) : all_prs[i].title # t_wip_feature
  /\ \E i, j \in 1..Len(all_prs) :
        /\ all_prs[i].title = t_multiwipe
        /\ all_prs[j].title = t_bracket_open



-----------------------------------------------------------------------------
(* main() of the HTML generator: thread pool over the (repo, user) pairs *)

NumUsers == 2          \* cfg.users holds NumUsers names
PoolCap  == 16         \* max_workers = min(len(tasks), 16)

Repos == {"org/a", "org/b"}                       \* cfg.repos (distinct repositories)
Users == 1..NumUsers                              \* cfg.users (load_config de-duplicates)
Pairs == Repos \X Users

\* what fetch_repo_user_data may return for a pair: a list of PR numbers
FetchedLists == { <<>>, <<7, 8>> }

Running == {t \in tasks : future[t] = "running"}
Finished == {t \in tasks : future[t] \in {"returned", "raised"}}

\* state after the submit loop: every pair has a future
InitMain ==
  /\ tasks = Pairs
  /\ future = [t \in Pairs |-> "pending"]
  /\ future_value = [t \in Pairs |-> <<>>]
  /\ yielded = {}
  /\ prs = <<>>
  /\ repo_user_prs = [t \in Pairs |-> <<>>]
  /\ main_pc = "pool"
  /\ IdleNotMain

\* a pool worker takes a submitted task
TaskStart ==
  /\ main_pc = "pool"
  /\ \E t \in tasks :
        /\ future[t] = "pending"
        /\ Cardinality(Running) < (IF Cardinality(tasks) < PoolCap
                                   THEN Cardinality(tasks) ELSE PoolCap)
        /\ future' = [future EXCEPT ![t] = "running"]
  /\ UNCHANGED <<tasks, future_value, yielded, prs, repo_user_prs, main_pc,
                 notMain>>

\* fetch_repo_user_data returns its list
TaskReturns ==
  /\ main_pc = "pool"
  /\ \E t \in tasks, l \in FetchedLists :
        /\ future[t] = "running"
        /\ future' = [future EXCEPT ![t] = "returned"]
        /\ future_value' = [future_value EXCEPT ![t] = l]
  /\ UNCHANGED <<tasks, yielded, prs, repo_user_prs, main_pc, notMain>>

\* fetch_repo_user_data raises (listing or comment paging failed)
TaskRaises ==
  /\ main_pc = "pool"
  /\ \E t \in tasks :
        /\ future[t] = "running"
        /\ future' = [future EXCEPT ![t] = "raised"]
  /\ UNCHANGED <<tasks, future_value, yielded, prs, repo_user_prs, main_pc,
                 notMain>>

\* A variant of the except branch without `prs = []`: prs keeps its old value.
PrsAfterExcept_stale(old) == old

\* except Exception: ... prs = []
PrsAfterExcept(old) == <<>>

\* one iteration of `for fut in as_completed(future_to_key)`
MainCollect ==
  /\ main_pc = "pool"
  /\ \E t \in Finished \ yielded :
        LET got == IF future[t] = "returned"
                   THEN future_value[t]          \* prs = fut.result()
                   ELSE PrsAfterExcept(prs)
        IN /\ prs' = got
           /\ repo_user_prs' = [repo_user_prs EXCEPT ![t] = <<got>>]
           /\ yielded' = yielded \cup {t}
  /\ UNCHANGED <<tasks, future, future_value, main_pc, notMain>>

\* the loop is over: build_html and the write of the report
MainBuildHtml ==
  /\ main_pc = "pool"
  /\ yielded = tasks
  /\ main_pc' = "written"
  /\ UNCHANGED <<tasks, future, future_value, yielded, prs, repo_user_prs,
                 notMain>>

NextMain ==
  \/ TaskStart
  \/ TaskReturns
  \/ TaskRaises
  \/ MainCollect
  \/ MainBuildHtml

SpecMain == InitMain /\ [][NextMain]_vars

(* ---- C2 ---- *)
C2_Entry(t) ==
  IF future[t] = "returned" THEN <<future_value[t]>> ELSE <<<<>>>>

\* C2: every pair the loop has handled has its entry in the result map, the
\* fetched list if its task returned and the empty list if it raised, whatever
\* happened to the other pairs and in whatever order the tasks finished; once
\* every task has finished and been handled the report is written (or can be
\* written), with an entry for every configured pair.
C2_FailureIsolated ==
  main_pc # "idle" =>
    /\ \A t \in yielded : repo_user_prs[t] = C2_Entry(t)
    /\ \A t \in tasks \ yielded : repo_user_prs[t] = <<>>
    /\ main_pc = "written" => yielded = tasks
    /\ (Finished = tasks /\ yielded = tasks /\ main_pc = "pool") => ENABLED MainBuildHtml

\* the report was written although a task of one pair raised after another
\* pair's task had returned a non-empty list, and both have their entry
C2_Witness ==
  /\ main_pc = "written"
  /\ \E t, u \in tasks :
        /\ future[t] = "raised" /\ repo_user_prs[t] = <<<<>>>>
        /\ future[u] = "returned" /\ repo_user_prs[u] = <<<<7, 8>>>>
        /\ prs = <<>>


-----------------------------------------------------------------------------
(* fetch_comments_for_pr (both Python files) and fetchCommentsForPr (page
   script).  An optional value is <<>> (None / null / key absent) or <<x>>. *)

CmPerPage == 2         \* stands for per_page = 100
MaxRaw    == 3         \* raw comments the API holds for the PR

TruthyNum(x) == x # <<>> /\ x[1] # 0
TruthyStr(x) == x # <<>> /\ x[1] # ""

\* user_obj.get("login") or user_obj.get("username") or user_obj.get("name") or ""
Login(user_obj) ==
  IF user_obj.login # "" THEN user_obj.login
  ELSE IF user_obj.username # "" THEN user_obj.username
  ELSE user_obj.name

\* pos = obj.get("position"); if pos is None: start_new_line or end_new_line
RawPos(obj) ==
  IF obj.position # <<>> THEN obj.position
  ELSE IF obj.diff_position = <<>> THEN <<>>
       ELSE LET d == obj.diff_position[1]
            IN IF TruthyNum(d.start_new_line) THEN d.start_new_line
               ELSE d.end_new_line

\* id=int(obj.get("id", 0))  /  parseInt(obj.id || 0, 10) || 0
RawId(obj) == IF obj.id = <<>> THEN 0 ELSE obj.id[1]

RawText(x) == IF x = <<>> THEN <<>> ELSE x[1]

\* A variant of the ingestion default that keeps the inferred value.
CoerceUnknown_keep(r) == r

\* if resolved_val is None: resolved_val = False
CoerceUnknown(r) == IF r = Unknown THEN R_FALSE ELSE r

NoOpts ==
  [fallback_path |-> <<>>, fallback_pos |-> <<>>, is_reply |-> FALSE,
   parent_user |-> <<>>, parent_id |-> <<>>]

ReplyOpts(parent) ==
  [fallback_path |-> parent.path, fallback_pos |-> parent.position,
   is_reply |-> TRUE, parent_user |-> <<parent.user>>, parent_id |-> <<parent.id>>]

\* _make_comment, gitcode_pr_report_site.py
_make_comment(obj, opts) ==
  LET pos == RawPos(obj)
  IN [id          |-> RawId(obj),
      user        |-> Login(obj.user),
      body        |-> RawText(obj.body),
      created_at  |-> RawText(obj.created_at),
      updated_at  |-> RawText(obj.updated_at),
      resolved    |-> CoerceUnknown(_infer_resolved(obj)),
      path        |-> IF TruthyStr(obj.path) THEN obj.path ELSE opts.fallback_path,
      position    |-> IF pos # <<>> THEN pos ELSE opts.fallback_pos,
      is_reply    |-> opts.is_reply,
      parent_user |-> opts.parent_user,
      parent_id   |-> opts.parent_id]

\* makeComment, page script: every `x || null` turns a falsy x into null
makeComment(obj, opts) ==
  LET pos == RawPos(obj)
  IN [id          |-> RawId(obj),
      user        |-> Login(obj.user),
      body        |-> RawText(obj.body),
      created_at  |-> RawText(obj.created_at),
      updated_at  |-> RawText(obj.updated_at),
      resolved    |-> CoerceUnknown(inferResolved(obj)),
      path        |-> IF TruthyStr(obj.path) THEN obj.path
                      ELSE IF TruthyStr(opts.fallback_path) THEN opts.fallback_path
                      ELSE <<>>,
      position    |-> IF pos # <<>> THEN pos
                      ELSE IF TruthyNum(opts.fallback_pos) THEN opts.fallback_pos
                      ELSE <<>>,
      is_reply    |-> opts.is_reply,
      parent_user |-> IF TruthyStr(opts.parent_user) THEN opts.parent_user ELSE <<>>,
      parent_id   |-> IF TruthyNum(opts.parent_id) THEN opts.parent_id ELSE <<>>]

\* ReviewComment(...) in fetch_comments_for_pr, gitcode_pr_multi_repo.py
ReviewComment_multi(c) ==
  [id         |-> RawId(c),
   user       |-> Login(c.user),
   body       |-> RawText(c.body),
   created_at |-> RawText(c.created_at),
   updated_at |-> RawText(c.updated_at),
   resolved   |-> _infer_resolved_multi(c),
   path       |-> c.path,
   position   |-> c.position]

\* replies = c.get("reply") or [] ... isinstance(replies, list)
\* Array.isArray(c.reply) ? c.reply : []
RepliesOf(c) == IF c.reply.t = "list" THEN c.reply.v ELSE <<>>

\* the entries one raw comment adds to `comments`
Entries(variant, c) ==
  IF variant = "multi" THEN << ReviewComment_multi(c) >>
  ELSE IF variant = "site"
       THEN LET parent == _make_comment(c, NoOpts)
            IN <<parent>> \o [i \in 1..Len(RepliesOf(c)) |->
                                _make_comment(RepliesOf(c)[i], ReplyOpts(parent))]
       ELSE LET parent == makeComment(c, NoOpts)
            IN <<parent>> \o [i \in 1..Len(RepliesOf(c)) |->
                                makeComment(RepliesOf(c)[i], ReplyOpts(parent))]

unresolved_count_with_replies(all_comments) ==
  Cardinality({i \in 1..Len(all_comments) : all_comments[i].resolved = R_FALSE})

\* unresolved_count / resolved_count of a PR card, build_html
unresolved_count(all_comments) ==
  Cardinality({i \in 1..Len(all_comments) :
                 ~all_comments[i].is_reply /\ all_comments[i].resolved = R_FALSE})

resolved_count(all_comments) ==
  Cardinality({i \in 1..Len(all_comments) :
                 ~all_comments[i].is_reply /\ all_comments[i].resolved = R_TRUE})

\* unresolved_comments, print_report_for_user (gitcode_pr_multi_repo.py)
unresolved_comments(pr_comments) ==
  {i \in 1..Len(pr_comments) : pr_comments[i].resolved = R_FALSE}

(* raw comments the API may return *)
RawUser(l, u, n) == [login |-> l, username |-> u, name |-> n]
NoReply == [t |-> "absent", v |-> <<>>]
ReplyList(rs) == [t |-> "list", v |-> rs]
ReplyObject == [t |-> "object", v |-> <<>>]     \* a truthy value that is no list

MkRaw(id, user, path, position, diff, resolved, reply) ==
  [id |-> id, user |-> user, body |-> << <<"o","k">> >>, created_at |-> << <<"d","1">> >>,
   updated_at |-> <<>>, path |-> path, position |-> position,
   diff_position |-> diff, resolved |-> resolved, status |-> Absent, reply |-> reply]

u_alice == RawUser("alice", "", "")
u_bob   == RawUser("", "bob", "")
u_none  == RawUser("", "", "")

r_plain == MkRaw(<<11>>, u_bob, <<>>, <<>>, <<>>, Absent, NoReply)
r_own   == MkRaw(<<12>>, u_bob, <<"b.c">>, <<9>>, <<>>, JBool(TRUE), NoReply)
r_diff  == MkRaw(<<13>>, u_alice, <<>>, <<>>,
                 <<[start_new_line |-> <<>>, end_new_line |-> <<7>>]>>,
                 JBool(FALSE), NoReply)

RawComments ==
  { MkRaw(<<1>>, u_alice, <<"a.c">>, <<5>>, <<>>, res, NoReply) :
      res \in {JBool(TRUE), JBool(FALSE), Absent} }
  \cup
  { MkRaw(id, u_alice, <<"a.c">>, pos, <<>>, JBool(FALSE), ReplyList(<<r_plain>>)) :
      id \in {<<>>, <<2>>}, pos \in {<<>>, <<0>>, <<5>>} }
  \cup
  { MkRaw(<<2>>, u_none, <<>>, <<>>, <<>>, JBool(FALSE), ReplyList(<<r_plain>>)),
    MkRaw(<<3>>, u_alice, <<"a.c">>, <<5>>, <<>>, JBool(TRUE), ReplyList(<<r_own, r_diff>>)),
    MkRaw(<<3>>, u_alice, <<"a.c">>, <<5>>, <<>>, Absent, ReplyObject) }

InitComments ==
  /\ cm_variant \in {"site", "client", "multi"}
  /\ cm_page = 1
  /\ cm_data_len = 0
  /\ cm_data_idx = 0
  /\ comments = <<>>
  /\ cm_pc = "request"
  /\ raw_seen = <<>>
  /\ IdleNotComments

\* gitcode_get raises / fetchJson rejects
CmRequestFails ==
  /\ cm_pc = "request"
  /\ cm_pc' = IF cm_variant = "client"
              THEN "done"            \* catch (e) { return comments; }
              ELSE "raised"
  /\ UNCHANGED <<cm_variant, cm_page, cm_data_len, cm_data_idx, comments, raw_seen,
                 notComments>>

\* if not isinstance(data, list) or not data: break
CmRequestEmpty ==
  /\ cm_pc = "request"
  /\ cm_pc' = "done"
  /\ UNCHANGED <<cm_variant, cm_page, cm_data_len, cm_data_idx, comments, raw_seen,
                 notComments>>

\* the API answers with a page of n raw comments
CmRequestPage ==
  /\ cm_pc = "request"
  /\ \E n \in 1..CmPerPage :
        /\ Len(raw_seen) + n <= MaxRaw
        /\ cm_data_len' = n
  /\ cm_data_idx' = 0
  /\ cm_pc' = "page"
  /\ UNCHANGED <<cm_variant, cm_page, comments, raw_seen, notComments>>

\* for c in data: one raw comment, its parent entry and its replies
CmRecord ==
  /\ cm_pc = "page"
  /\ cm_data_idx < cm_data_len
  /\ \E c \in RawComments :
        /\ comments' = comments \o Entries(cm_variant, c)
        /\ raw_seen' = Append(raw_seen, c)
  /\ cm_data_idx' = cm_data_idx + 1
  /\ UNCHANGED <<cm_variant, cm_page, cm_data_len, cm_pc, notComments>>

\* if len(data) < 100: break; page += 1
CmPageEnd ==
  /\ cm_pc = "page"
  /\ cm_data_idx = cm_data_len
  /\ IF cm_data_len < CmPerPage
     THEN cm_pc' = "done" /\ cm_page' = cm_page
     ELSE cm_pc' = "request" /\ cm_page' = cm_page + 1
  /\ UNCHANGED <<cm_variant, cm_data_len, cm_data_idx, comments, raw_seen, notComments>>

NextComments ==
  \/ CmRequestFails
  \/ CmRequestEmpty
  \/ CmRequestPage
  \/ CmRecord
  \/ CmPageEnd

SpecComments == InitComments /\ [][NextComments]_vars

(* ---- C10 ---- *)
NReplies(raw) == IF raw.reply.t = "list" THEN Len(raw.reply.v) ELSE 0

RECURSIVE BlockStart(_, _)
\* index in the flat list of the parent entry of the k-th raw comment
BlockStart(raws, k) ==
  IF k = 1 THEN 1 ELSE BlockStart(raws, k - 1) + 1 + NReplies(raws[k - 1])

SameAuthor(parent_user, user) ==
  IF user = "" THEN parent_user \in {<<>>, <<"">>} ELSE parent_user = <<user>>

C10_Linked ==
  /\ Len(comments) = BlockStart(raw_seen, Len(raw_seen) + 1) - 1
  /\ \A k \in 1..Len(raw_seen) :
        LET s == BlockStart(raw_seen, k)
            raw == raw_seen[k]
            p == comments[s]
        IN /\ ~p.is_reply
           /\ p.id = RawId(raw)
           /\ \A i \in 1..NReplies(raw) :
                 LET e == comments[s + i]
                     rr == raw.reply.v[i]
                 IN /\ e.is_reply
                    /\ e.id = RawId(rr)
                    /\ e.parent_id = <<p.id>>
                    /\ SameAuthor(e.parent_user, p.user)
                    /\ e.path = (IF rr.path # <<>> THEN rr.path ELSE p.path)
                    /\ e.position = (IF RawPos(rr) # <<>> THEN RawPos(rr) ELSE p.position)
  /\ \A i \in 1..Len(comments) :
        comments[i].is_reply =>
          \E j \in 1..(i - 1) :
             ~comments[j].is_reply /\ comments[i].parent_id = <<comments[j].id>>

\* C10: the list a comment fetch of the HTML generator returns (server side or
\* in the page) holds, for the raw comments in the order received, one parent
\* entry each, immediately followed by one entry per element of its reply
\* array carrying the parent's id and author and the parent's path / position
\* where the reply has none; every reply is preceded by the parent it names.
C10_ReplyLinkage ==
  (cm_pc = "done" /\ cm_variant \in {"site", "client"}) => C10_Linked

\* C10, server side only: fetch_comments_for_pr of gitcode_pr_report_site.py
\* returns the list the claim describes.
C10_ServerReplyLinkage ==
  (cm_pc = "done" /\ cm_variant = "site") => C10_Linked

\* the page's fetch has returned a parent without id (id 0) and its reply,
\* received on the second page
C10_Witness ==
  /\ cm_pc = "done"
  /\ cm_variant = "client"
  /\ cm_page = 2
  /\ Len(raw_seen) = 3
  /\ raw_seen[3].id = <<>> /\ NReplies(raw_seen[3]) = 1
  /\ comments[Len(comments)].is_reply
  /\ comments[Len(comments)].parent_id = <<>>

(* ---- C8 ---- *)
EntryIndex(k) == IF cm_variant = "multi" THEN k ELSE BlockStart(raw_seen, k)

InferredAs(r) == {k \in 1..Len(raw_seen) : _infer_resolved(raw_seen[k]) = r}

\* C8 as stated: a raw comment whose status cannot be inferred keeps the
\* unknown status in the fetched list and is counted neither as unresolved nor
\* as resolved.
C8_UnknownExcluded ==
  cm_pc = "done" =>
    /\ \A k \in InferredAs(Unknown) : comments[EntryIndex(k)].resolved = Unknown
    /\ cm_variant = "multi" =>
         Cardinality(unresolved_comments(comments)) = Cardinality(InferredAs(R_FALSE))
    /\ cm_variant # "multi" =>
         /\ unresolved_count(comments) = Cardinality(InferredAs(R_FALSE))
         /\ resolved_count(comments) = Cardinality(InferredAs(R_TRUE))

\* C8 amended: the multi-repo CLI keeps unknown apart and counts it in neither
\* group; the HTML generator (server side and in the page) stores unknown as
\* unresolved at ingestion, so that it is counted as unresolved and is the
\* same value as an explicit false; it is never counted as resolved.
C8_UnknownCoercedAtIngestion ==
  cm_pc = "done" =>
    /\ cm_variant = "multi" =>
         /\ \A k \in InferredAs(Unknown) : comments[EntryIndex(k)].resolved = Unknown
         /\ unresolved_comments(comments) = InferredAs(R_FALSE)
    /\ cm_variant # "multi" =>
         /\ \A k \in InferredAs(Unknown) \cup InferredAs(R_FALSE) :
               comments[EntryIndex(k)].resolved = R_FALSE
         /\ unresolved_count(comments) =
               Cardinality(InferredAs(R_FALSE)) + Cardinality(InferredAs(Unknown))
         /\ resolved_count(comments) = Cardinality(InferredAs(R_TRUE))

\* the server-side fetch returned a comment of unknown status and one that is
\* explicitly unresolved, and the card count takes both as unresolved
C8_Witness ==
  /\ cm_pc = "done"
  /\ cm_variant = "site"
  /\ InferredAs(Unknown) # {}
  /\ InferredAs(R_FALSE) # {}
  /\ unresolved_count(comments) = 2


-----------------------------------------------------------------------------
(* The page: cards built from the enriched data (build_html, buildCardView)
   and the filter engine (applyFilters, refreshStats, wrappedApply).
   Timestamps are numbers in half days; <<>> is an empty or unparsable one.
   Chinese UI texts are written as tokens such as "<huifu>". *)

MaxFilterSteps == 2      \* control events handled after the page was loaded

\* ---- text of a rendered review item ----
NewLine  == "<newline>"       \* the line break character
Backtick == "<backtick>"      \* the backtick character
Fence == <<Backtick, Backtick, Backtick>>

IndexOfNewLine(s) ==
  IF \E i \in 1..Len(s) : s[i] = NewLine
  THEN CHOOSE i \in 1..Len(s) : s[i] = NewLine /\ \A j \in 1..(i - 1) : s[j] # NewLine
  ELSE 0

RECURSIVE SplitLines(_)
\* body.splitlines() / body.split on line breaks
SplitLines(s) ==
  IF s = <<>> THEN <<>>
  ELSE LET i == IndexOfNewLine(s)
       IN IF i = 0 THEN <<s>>
          ELSE <<SubSeq(s, 1, i - 1)>> \o SplitLines(SubSeq(s, i + 1, Len(s)))

\* text of render_text_line(line): the backticks become <code> tags
TextOfLine(line) == SelectSeq(line, LAMBDA c : c # Backtick)

RECURSIVE JoinLines(_)
\* the code lines joined by line breaks
JoinLines(ls) ==
  IF ls = <<>> THEN <<>>
  ELSE IF Len(ls) = 1 THEN ls[1]
  ELSE ls[1] \o <<NewLine>> \o JoinLines(Tail(ls))

RECURSIVE ConcatAll(_)
ConcatAll(ls) == IF ls = <<>> THEN <<>> ELSE ls[1] \o ConcatAll(Tail(ls))

RECURSIVE RenderedText(_, _, _)
\* textContent of render_comment_body(body): <br/> adds no text
RenderedText(lines, in_code, code_lines) ==
  IF lines = <<>>
  THEN IF in_code /\ code_lines # <<>>
       THEN ConcatAll([i \in 1..Len(code_lines) |-> TextOfLine(code_lines[i])])
       ELSE <<>>
  ELSE LET line == Head(lines)
           rest == Tail(lines)
       IN IF StartsWith(line, Fence)
          THEN IF ~in_code
               THEN RenderedText(rest, TRUE, <<>>)
               ELSE JoinLines(code_lines) \o RenderedText(rest, FALSE, <<>>)
          ELSE IF in_code
               THEN RenderedText(rest, TRUE, Append(code_lines, line))
               ELSE TextOfLine(line) \o RenderedText(rest, FALSE, code_lines)

render_comment_body(body) == RenderedText(SplitLines(body), FALSE, <<>>)

tok_reply      == <<"<huifu>">>        \* status text of a reply
tok_resolved   == <<"<yijiejue>">>     \* status text of a resolved comment
tok_unresolved == <<"<weijiejue>">>    \* status text of an unresolved comment
tok_created    == <<"<chuangjian>", ":">>
tok_updated    == <<" ", "|", " ", "<gengxin>", ":">>

\* header and meta line of render_comment (path and position are not kept here)
HeaderText(cm, is_reply) ==
  IF is_reply THEN tok_reply
  ELSE IF cm.resolved = R_TRUE THEN tok_resolved ELSE tok_unresolved

MetaText(cm) == tok_created \o cm.created_at \o tok_updated \o cm.updated_at

\* what applyFilters reads as bodyText: the .review-body node exists only for
\* a non-empty body; without it the text of the whole item is taken
BodyTextOf(cm, is_reply) ==
  IF cm.body # <<>>
  THEN render_comment_body(cm.body)
  ELSE HeaderText(cm, is_reply) \o MetaText(cm)

\* ---- PR type ----
TypeChars ==
  {LowerChars[i] : i \in 1..Len(LowerChars)} \cup {UpperChars[i] : i \in 1..Len(UpperChars)}
  \cup {"0","1","2","3","4","5","6","7","8","9","_","-"}

allowed_pr_types ==
  { <<"f","e","a","t">>, <<"f","i","x">>, <<"d","o","c","s">>, <<"c","h","o","r","e">>,
    <<"r","e","f","a","c","t","o","r">>, <<"t","e","s","t">>, <<"s","t","y","l","e">>,
    <<"p","e","r","f">>, <<"c","i">> }

\* length of the longest prefix of t made of [A-Za-z0-9_-]
PrefixLen(t) ==
  IF \E i \in 1..Len(t) : t[i] \notin TypeChars
  THEN (CHOOSE i \in 1..Len(t) : t[i] \notin TypeChars /\ \A j \in 1..(i - 1) : t[j] \in TypeChars) - 1
  ELSE Len(t)

\* _infer_pr_type / inferPrType: ^([A-Za-z0-9_-]+)\s*: on the stripped title
_infer_pr_type(title) ==
  LET t == Strip(title)
      n == PrefixLen(t)
      after == LStrip(SubSeq(t, n + 1, Len(t)))
      prefix == Lower(SubSeq(t, 1, n))
  IN IF n > 0 /\ after # <<>> /\ after[1] = ":" /\ prefix \in allowed_pr_types
     THEN prefix ELSE <<>>

\* ---- sorting ----
RECURSIVE LexLess(_, _)
\* tuple comparison: a sorts strictly before b
LexLess(a, b) ==
  IF a = <<>> \/ b = <<>> THEN FALSE
  ELSE IF a[1] # b[1] THEN a[1] < b[1]
  ELSE LexLess(Tail(a), Tail(b))

RECURSIVE InsertByKey(_, _)
\* insert e after every element that does not sort after it (stable)
InsertByKey(sorted, e) ==
  IF sorted = <<>> THEN <<e>>
  ELSE IF LexLess(e.k, Head(sorted).k) THEN <<e>> \o sorted
  ELSE <<Head(sorted)>> \o InsertByKey(Tail(sorted), e)

RECURSIVE SortByKey(_)
\* sorted(..., key=...) / Array.prototype.sort: stable, ascending on .k
SortByKey(es) ==
  IF es = <<>> THEN <<>>
  ELSE InsertByKey(SortByKey(SubSeq(es, 1, Len(es) - 1)), es[Len(es)])

\* _parse_ts / parseTs / parseDate: 0 for an empty or unparsable timestamp
ParseTs(ts) == IF ts = <<>> THEN 0 ELSE ts[1]


\* ---- the enriched data: users, their PRs and the review comments ----
Today == 3              \* the day the page is opened (days are counted from 0)
HalfDaysPerDay == 2     \* 24 hours in the unit of the timestamps

\* ReviewComment as fetch_comments_for_pr leaves it: resolved is True or False
ReviewComment(id, user, body, resolved, is_reply, parent_id) ==
  [id |-> id, user |-> user, body |-> body,
   created_at |-> <<"d","1">>, updated_at |-> <<"d","2">>,
   resolved |-> resolved, is_reply |-> is_reply, parent_id |-> parent_id]

EnrichedPr(number, state, title, created_at, updated_at, issues, target_branch, cms) ==
  [number |-> number, state |-> state, title |-> title,
   created_at |-> created_at, updated_at |-> updated_at,
   issues |-> issues, target_branch |-> target_branch, comments |-> cms]

b_fix_a  == <<"f","i","x"," ","a">>
b_n_o    == <<"n", NewLine, "o">>
b_x      == <<"x">>
b_FIX    == <<"F","I","X">>
b_y      == <<"y">>
b_tick   == <<"f", Backtick, "i","x">>

cm1  == ReviewComment(1, "bob",   b_fix_a, R_FALSE, FALSE, <<>>)
cm2  == ReviewComment(2, "alice", b_n_o,   R_FALSE, TRUE,  <<1>>)
cm3  == ReviewComment(3, "bob",   b_x,     R_TRUE,  FALSE, <<>>)
cm4  == ReviewComment(4, "alice", b_FIX,   R_FALSE, TRUE,  <<3>>)
cm5  == ReviewComment(5, "carol", b_y,     R_FALSE, FALSE, <<>>)
cm6  == ReviewComment(6, "bob",   b_x,     R_FALSE, FALSE, <<>>)
cm7  == ReviewComment(7, "alice", <<>>,    R_FALSE, TRUE,  <<6>>)
cm8  == ReviewComment(8, "carol", b_y,     R_TRUE,  FALSE, <<>>)
cm9  == ReviewComment(9, "alice", b_tick,  R_TRUE,  TRUE,  <<8>>)
\* a reply whose parent had no id: is_reply with parent_id None
cm10 == ReviewComment(10, "alice", b_FIX,  R_FALSE, TRUE,  <<>>)

title_fix  == <<"f","i","x",":"," ","a">>
title_feat == <<" ","F","e","a","t"," ",":","b">>
title_plain  == <<"w","i","p">>
title_other  == <<"n","e","w",":","c">>

s_open   == <<"o","p","e","n">>
s_merged == <<"m","e","r","g","e","d">>
s_Merged == <<"M","e","r","g","e","d">>
s_closed == <<"c","l","o","s","e","d">>

NoIssues  == <<>>
BugIssues == << [labels |-> <<"bug", "">>], [labels |-> <<"ui", "bug">>] >>
UiIssues  == << [labels |-> <<"ui">>] >>

pr1 == EnrichedPr(1, s_open,   title_fix,  <<2>>, <<5>>, BugIssues, "main", <<cm1, cm2, cm5, cm3, cm4>>)
pr2 == EnrichedPr(2, s_Merged, title_other,  <<4>>, <<4>>, NoIssues,  "dev",  <<cm8, cm9>>)
pr3 == EnrichedPr(3, s_merged, title_feat, <<>>,  <<>>,  NoIssues,  "",     <<>>)
pr4 == EnrichedPr(4, s_closed, title_plain,  <<1>>, <<1>>, UiIssues,  "main", <<cm5>>)
pr5 == EnrichedPr(5, s_open,   title_plain,  <<6>>, <<7>>, NoIssues,  "main", <<>>)
pr6 == EnrichedPr(6, s_merged, title_fix,  <<4>>, <<7>>, UiIssues,  "dev",  <<cm6, cm7, cm10>>)

User(username, prs_of_user) == [username |-> username, prs |-> prs_of_user]

\* users_prs of the one repository, in the order of cfg.users
Datasets ==
  { << User("alice", <<pr1, pr2>>),      User("bob", <<pr3>>) >>,
    << User("alice", <<pr2, pr6>>),      User("bob", <<pr5>>) >>,
    << User("alice", <<pr3, pr6, pr1>>), User("bob", <<>>) >>,
    << User("alice", <<pr4>>),           User("bob", <<pr5, pr1>>) >>,
    << User("alice", <<pr6, pr5>>),      User("bob", <<pr4, pr3>>) >> }

\* ---- build_html / buildCardView: the cards of the page ----
RECURSIVE Dedup(_)
\* the elements of s in order of first appearance
Dedup(s) ==
  IF s = <<>> THEN <<>>
  ELSE LET init == Dedup(SubSeq(s, 1, Len(s) - 1))
           e == s[Len(s)]
       IN IF \E i \in 1..Len(init) : init[i] = e THEN init ELSE Append(init, e)

issue_labels_flat(pr) ==
  Dedup(SelectSeq(ConcatAll([i \in 1..Len(pr.issues) |-> pr.issues[i].labels]),
                  LAMBDA lab : lab # ""))

StateRank(state) ==
  IF Lower(state) = s_open THEN 0 ELSE IF Lower(state) = s_merged THEN 1 ELSE 2

_pr_sort_key(pr) == <<StateRank(pr.state), 0 - ParseTs(pr.created_at), 0 - pr.number>>

SortedPrs(prs_of_user) ==
  LET keyed == SortByKey([i \in 1..Len(prs_of_user) |->
                            [k |-> _pr_sort_key(prs_of_user[i]), v |-> prs_of_user[i]]])
  IN [i \in 1..Len(keyed) |-> keyed[i].v]

\* one .review-item as render_comment writes it
render_comment(cm, is_reply, group) ==
  [comment_id |-> cm.id,
   is_reply   |-> is_reply,
   parent_id  |-> IF is_reply THEN cm.parent_id ELSE <<>>,
   resolved   |-> cm.resolved = R_TRUE,
   user       |-> cm.user,
   body_text  |-> BodyTextOf(cm, is_reply),
   group      |-> group,
   display    |-> TRUE]

\* the review items of one card: the parents grouped by reviewer in order of
\* first appearance, each followed by its replies, the orphan replies last
ReviewItems(all_comments) ==
  LET parents == SelectSeq(all_comments, LAMBDA cm : ~cm.is_reply)
      replies == SelectSeq(all_comments, LAMBDA cm : cm.is_reply)
      parent_ids == {parents[i].id : i \in 1..Len(parents)}
      HasParent(cm) == cm.parent_id # <<>> /\ cm.parent_id[1] \in parent_ids
      reviewers == Dedup([i \in 1..Len(parents) |-> parents[i].user])
      Thread(p) ==
        <<render_comment(p, FALSE, p.user)>> \o
        LET child == SelectSeq(replies, LAMBDA cm : HasParent(cm) /\ cm.parent_id[1] = p.id)
        IN [i \in 1..Len(child) |-> render_comment(child[i], TRUE, p.user)]
      Group(r) ==
        LET mine == SelectSeq(parents, LAMBDA cm : cm.user = r)
        IN ConcatAll([i \in 1..Len(mine) |-> Thread(mine[i])])
      orphan_replies == SelectSeq(replies, LAMBDA cm : ~HasParent(cm))
  IN ConcatAll([i \in 1..Len(reviewers) |-> Group(reviewers[i])]) \o
     [i \in 1..Len(orphan_replies) |-> render_comment(orphan_replies[i], TRUE, "(orphans)")]

ItemGroups(items) == {items[i].group : i \in 1..Len(items)}

\* one .pr-card with its data attributes
Card(pr, username) ==
  LET items == ReviewItems(pr.comments)
  IN [pr_number        |-> pr.number,
      username         |-> username,
      state            |-> Lower(pr.state),
      total_comments   |-> Len(pr.comments),
      unresolved_count |-> unresolved_count(pr.comments),
      resolved_count   |-> resolved_count(pr.comments),
      created          |-> pr.created_at,
      updated          |-> pr.updated_at,
      issue_labels     |-> issue_labels_flat(pr),
      pr_type          |-> _infer_pr_type(pr.title),
      target           |-> pr.target_branch,
      display          |-> TRUE,
      items            |-> items,
      groups_shown     |-> ItemGroups(items),
      empty_all        |-> IF pr.comments = <<>> THEN "shown" ELSE "absent",
      empty_unresolved |-> FALSE]

\* the user blocks: a user without PRs gets no block
UserBlocks(users_prs) ==
  LET with_prs == SelectSeq(users_prs, LAMBDA u : Len(u.prs) # 0)
  IN [i \in 1..Len(with_prs) |->
        LET sorted_prs == SortedPrs(with_prs[i].prs)
        IN [username |-> with_prs[i].username,
            display  |-> TRUE,
            count    |-> Len(with_prs[i].prs),
            cards    |-> [j \in 1..Len(sorted_prs) |-> Card(sorted_prs[j], with_prs[i].username)]]]

AllCards(blocks) == ConcatAll([i \in 1..Len(blocks) |-> blocks[i].cards])

build_html(users_prs) ==
  LET blocks == UserBlocks(users_prs)
  IN [users |-> blocks, repo_count |-> Len(AllCards(blocks))]

\* the options of the facet filters, collected from the data
AllPrs(users_prs) == ConcatAll([i \in 1..Len(users_prs) |-> users_prs[i].prs])

issue_labels(users_prs) ==
  LET all == AllPrs(users_prs)
  IN UNION {{issue_labels_flat(all[i])[j] : j \in 1..Len(issue_labels_flat(all[i]))} : i \in 1..Len(all)}

pr_types(users_prs) ==
  LET all == AllPrs(users_prs)
  IN {_infer_pr_type(all[i].title) : i \in 1..Len(all)} \ {<<>>}

target_branches(users_prs) ==
  LET all == AllPrs(users_prs)
  IN {all[i].target_branch : i \in 1..Len(all)} \ {""}

cfg_users(users_prs) == {users_prs[i].username : i \in 1..Len(users_prs)}

\* ---- the filter controls as applyFilters reads them ----
StateOptions == {s_open, s_merged}
CommentKindOptions == {"unresolved", "resolved", "none"}
SortOptions == {"created", "updated", "unresolved"}
DateFieldOptions == {"created", "updated"}

getSelectedStates(ctl) == IF ctl.states # {} THEN ctl.states ELSE {s_open, s_merged}

getSelectedCommentKinds(ctl) ==
  IF ctl.kinds # {} THEN ctl.kinds ELSE {"unresolved", "resolved", "none"}

\* Date.parse of the value of a date input: midnight of that day
DateInput(day) == day * HalfDaysPerDay

matchWholeWord(text, kw) ==
  IF kw = <<>> THEN TRUE ELSE Includes(Lower(text), Lower(kw))

\* ---- applyFilters: the review items of one card ----
\* first pass over the items: the flags of one item
ItemFlags_replies_kept(it, ctl) ==
  LET keyword == Lower(Strip(ctl.keyword))
      excludeKw == Strip(ctl.exclude)
      excludeHit == it.is_reply /\ excludeKw # <<>> /\ matchWholeWord(it.body_text, excludeKw)
      matchesKeyword ==
        IF it.is_reply THEN matchWholeWord(it.body_text, keyword) ELSE keyword = <<>>
      baseVisible ==
        /\ matchesKeyword
        /\ ~excludeHit
        /\ (~ctl.only_unresolved \/ ~it.resolved)
        /\ (~ctl.only_resolved \/ it.resolved)
  IN [excludeHit     |-> excludeHit,
      matchesKeyword |-> matchesKeyword,
      visible        |-> baseVisible]

ItemFlags(it, ctl) ==
  LET keyword == Lower(Strip(ctl.keyword))
      excludeKw == Strip(ctl.exclude)
      excludeHit == it.is_reply /\ excludeKw # <<>> /\ matchWholeWord(it.body_text, excludeKw)
      matchesKeyword ==
        IF it.is_reply THEN matchWholeWord(it.body_text, keyword) ELSE keyword = <<>>
      baseVisible ==
        /\ matchesKeyword
        /\ ~excludeHit
        /\ (~ctl.only_unresolved \/ ~it.resolved)
        /\ (~ctl.only_resolved \/ it.resolved)
  IN [excludeHit     |-> excludeHit,
      matchesKeyword |-> matchesKeyword,
      visible        |-> baseVisible /\ ~(ctl.hide_replies /\ it.is_reply)]

\* the later passes over the review items, fl being the flags of the first
LaterPasses(items, ctl, fl) ==
  LET idx == 1..Len(items)
      parents == {i \in idx : ~items[i].is_reply}
      linked == {i \in idx : items[i].is_reply /\ items[i].parent_id # <<>>}
      \* parentResolvedMap: the last parent with that id decides
      parentResolved(cid) ==
        LET same == {i \in parents : items[i].comment_id = cid}
        IN items[CHOOSE i \in same : \A j \in same : j <= i].resolved
      replyKeywordParents == {items[i].parent_id[1] : i \in {j \in linked : fl[j].matchesKeyword}}
      replyExcludeParents == {items[i].parent_id[1] : i \in {j \in linked : fl[j].excludeHit}}
      shownByReply == {i \in parents :
                         /\ items[i].comment_id \in replyKeywordParents
                         /\ ~(ctl.only_unresolved /\ parentResolved(items[i].comment_id))}
      visibleParents ==
        {items[i].comment_id : i \in {j \in parents : fl[j].visible} \cup shownByReply}
      hiddenByExclude ==
        {i \in parents : items[i].comment_id \in replyExcludeParents}
        \cup {i \in linked : items[i].parent_id[1] \in replyExcludeParents}
      hiddenByParent ==
        IF ctl.hide_replies THEN {}
        ELSE {i \in linked : items[i].parent_id[1] \notin visibleParents}
      Shown(i) ==
        /\ fl[i].visible \/ i \in shownByReply
        /\ i \notin hiddenByExclude
        /\ i \notin hiddenByParent
  IN [items |-> [i \in idx |-> [items[i] EXCEPT !.display = Shown(i)]],
      keywordMatched |-> \E i \in idx : fl[i].matchesKeyword]

\* the four passes over the review items of one card
FilterItems(items, ctl) ==
  LaterPasses(items, ctl, [i \in 1..Len(items) |-> ItemFlags(items[i], ctl)])

\* ---- applyFilters: one card ----
commentTags(card) ==
  (IF card.unresolved_count > 0 THEN {"unresolved"} ELSE {})
  \cup (IF card.resolved_count > 0 THEN {"resolved"} ELSE {})
  \cup (IF ~(card.total_comments > 0) THEN {"none"} ELSE {})

stateAllowed(card, ctl) == Lower(card.state) \in getSelectedStates(ctl)

commentAllowed_shown_only(card, ctl) ==
  /\ commentTags(card) \cap getSelectedCommentKinds(ctl) # {}
  /\ ~(ctl.only_unresolved /\ card.unresolved_count = 0 /\ card.total_comments > 0)
commentAllowed(card, ctl) == commentTags(card) \cap getSelectedCommentKinds(ctl) # {}

dateAllowed(card, ctl) ==
  LET dateStr == IF ctl.date_field = "updated" THEN card.updated ELSE card.created
  IN \/ dateStr = <<>>
     \/ /\ ctl.date_start # <<>> => dateStr[1] >= DateInput(ctl.date_start[1])
        /\ ctl.date_end # <<>> => dateStr[1] <= DateInput(ctl.date_end[1]) + HalfDaysPerDay

issueAllowed(card, ctl) ==
  ctl.labels = {} \/ \E i \in 1..Len(card.issue_labels) : card.issue_labels[i] \in ctl.labels

typeAllowed_any(card, ctl) == TRUE
typeAllowed(card, ctl) == ctl.types = {} \/ card.pr_type \in ctl.types

targetAllowed(card, ctl) == ctl.targets = {} \/ card.target \in ctl.targets

hiddenAsClean_any_state(card, ctl) == ctl.hide_clean /\ ~(card.unresolved_count > 0)
hiddenAsClean(card, ctl) ==
  ctl.hide_clean /\ Lower(card.state) # s_open /\ ~(card.unresolved_count > 0)

\* the card rule, res being the outcome of the passes over its items
ShowOrHideCard(card, ctl, res) ==
  LET keywordAllowed == Strip(ctl.keyword) = <<>> \/ res.keywordMatched
      shouldHidePr ==
        \/ ~stateAllowed(card, ctl)
        \/ ~commentAllowed(card, ctl)
        \/ ~dateAllowed(card, ctl)
        \/ ~issueAllowed(card, ctl)
        \/ ~typeAllowed(card, ctl)
        \/ ~targetAllowed(card, ctl)
        \/ ~keywordAllowed
        \/ hiddenAsClean(card, ctl)
      hasVisibleReviews == \E i \in 1..Len(res.items) : res.items[i].display
  IN [card EXCEPT
        !.display = ~shouldHidePr,
        !.items = res.items,
        !.groups_shown = {res.items[i].group : i \in {j \in 1..Len(res.items) : res.items[j].display}},
        !.empty_unresolved = ctl.only_unresolved /\ ~hasVisibleReviews,
        !.empty_all = IF card.empty_all = "absent" THEN "absent"
                      ELSE IF ctl.only_unresolved THEN "hidden"
                      ELSE IF ~hasVisibleReviews THEN "shown" ELSE "hidden"]

FilterCard(card, ctl) == ShowOrHideCard(card, ctl, FilterItems(card.items, ctl))

\* ---- applyFilters: one user block ----
parseDate(v) == ParseTs(v)

\* the comparator of the card sort as a key: smaller sorts first
CardSortKey(card, sortKey) ==
  IF sortKey = "updated" THEN <<0 - parseDate(card.updated)>>
  ELSE IF sortKey = "unresolved"
       THEN <<0 - card.unresolved_count, 0 - parseDate(card.created)>>
       ELSE <<0 - parseDate(card.created)>>

userAllowed(block, ctl) == block.username \in ctl.users \/ block.username = ""

\* A variant whose sort turns cards of equal key around.
ArrangeUserBlock_unstable(block, ctl, cards, visibleCards) ==
  LET n == Len(visibleCards)
      keyed == SortByKey([i \in 1..n |->
                            [k |-> CardSortKey(visibleCards[n + 1 - i], ctl.sort),
                             v |-> visibleCards[n + 1 - i]]])
      sortedCards == [i \in 1..Len(keyed) |-> keyed[i].v]
      grid == IF userAllowed(block, ctl)
              THEN SelectSeq(cards, LAMBDA c : ~c.display) \o sortedCards
              ELSE cards
      shouldHideUser ==
        ~userAllowed(block, ctl) \/ (ctl.hide_empty_users /\ Len(visibleCards) = 0)
  IN [block EXCEPT !.cards = grid, !.count = Len(visibleCards), !.display = ~shouldHideUser]

\* the second loop of applyFilters on one user block whose cards are filtered
ArrangeUserBlock(block, ctl, cards, visibleCards) ==
  LET keyed == SortByKey([i \in 1..Len(visibleCards) |->
                            [k |-> CardSortKey(visibleCards[i], ctl.sort), v |-> visibleCards[i]]])
      sortedCards == [i \in 1..Len(keyed) |-> keyed[i].v]
      \* grid.appendChild moves every sorted card to the end of the grid
      grid == IF userAllowed(block, ctl)
              THEN SelectSeq(cards, LAMBDA c : ~c.display) \o sortedCards
              ELSE cards
      shouldHideUser ==
        ~userAllowed(block, ctl) \/ (ctl.hide_empty_users /\ Len(visibleCards) = 0)
  IN [block EXCEPT !.cards = grid, !.count = Len(visibleCards), !.display = ~shouldHideUser]

VisibleOf(block, ctl, cards) ==
  IF userAllowed(block, ctl) THEN SelectSeq(cards, LAMBDA c : c.display) ELSE <<>>

FilteredBlock(block, ctl, cards) ==
  ArrangeUserBlock(block, ctl, cards, VisibleOf(block, ctl, cards))

FilterUserBlock(block, ctl) ==
  FilteredBlock(block, ctl, [i \in 1..Len(block.cards) |-> FilterCard(block.cards[i], ctl)])

\* the cards that count: shown, in a user block that is shown
VisibleCards(blocks) ==
  ConcatAll([i \in 1..Len(blocks) |->
               IF blocks[i].display THEN SelectSeq(blocks[i].cards, LAMBDA c : c.display)
               ELSE <<>>])

WithRepoCount(blocks) == [users |-> blocks, repo_count |-> Len(VisibleCards(blocks))]

applyFilters(d, ctl) ==
  WithRepoCount([i \in 1..Len(d.users) |-> FilterUserBlock(d.users[i], ctl)])

\* ---- refreshStats over collectVisibleCards ----
StatsOf(rows) ==
  LET Count(P(_)) == Cardinality({i \in 1..Len(rows) : P(rows[i])})
  IN [total      |-> Len(rows),
      open       |-> Count(LAMBDA r : Lower(r.state) = s_open),
      merged     |-> Count(LAMBDA r : Lower(r.state) = s_merged),
      unresolved |-> Count(LAMBDA r : r.unresolved_count > 0)]

refreshStats(d) == StatsOf(VisibleCards(d.users))

\* collectVisibleIssues / collectVisibleReceived: one row for every parent
\* comment shown in a card that counts
collectVisibleIssues(d) ==
  LET cards == VisibleCards(d.users)
  IN ConcatAll([i \in 1..Len(cards) |->
       LET shown == SelectSeq(cards[i].items, LAMBDA it : ~it.is_reply /\ it.display)
       IN [j \in 1..Len(shown) |->
             [prAuthor |-> cards[i].username, user |-> shown[j].user,
              resolved |-> shown[j].resolved, commentId |-> shown[j].comment_id]]])

collectVisibleReceived(d) ==
  LET cards == VisibleCards(d.users)
  IN ConcatAll([i \in 1..Len(cards) |->
       LET shown == SelectSeq(cards[i].items, LAMBDA it : ~it.is_reply /\ it.display)
       IN [j \in 1..Len(shown) |->
             [prAuthor |-> cards[i].username, reviewer |-> shown[j].user,
              resolved |-> shown[j].resolved, commentId |-> shown[j].comment_id]]])

\* the table of a rollup: per key the total, unresolved and resolved rows
RollupTable(keys, rows) ==
  {[user       |-> k,
    total      |-> Cardinality({i \in 1..Len(rows) : keys[i] = k}),
    unresolved |-> Cardinality({i \in 1..Len(rows) : keys[i] = k /\ ~rows[i].resolved}),
    resolved   |-> Cardinality({i \in 1..Len(rows) : keys[i] = k /\ rows[i].resolved})] :
   k \in {keys[i] : i \in 1..Len(rows)}}

IssueTable(rows) == RollupTable([i \in 1..Len(rows) |-> rows[i].user], rows)
ReceivedTable(rows) == RollupTable([i \in 1..Len(rows) |-> rows[i].prAuthor], rows)

refreshIssueView(d) == IssueTable(collectVisibleIssues(d))
refreshReceivedView(d) == ReceivedTable(collectVisibleReceived(d))

\* ---- updateSummary: the parts of the summary line ----
updateSummary(ctl) ==
  [states   |-> getSelectedStates(ctl),
   comments |-> getSelectedCommentKinds(ctl),
   display  |-> IF ctl.only_resolved THEN "resolved"
                ELSE IF ctl.only_unresolved THEN "unresolved" ELSE "all",
   replies  |-> ~ctl.hide_replies,
   keyword  |-> Strip(ctl.keyword),
   exclude  |-> Strip(ctl.exclude),
   labels   |-> ctl.labels,
   types    |-> ctl.types,
   targets  |-> ctl.targets,
   dates    |-> <<ctl.date_start, ctl.date_end, ctl.date_field>>,
   hide_empty |-> ctl.hide_empty_users,
   sort     |-> ctl.sort]

\* ---- the page after loading, and the control events ----
KeywordInputs == { <<>>, <<" ","F","i","x">>, <<"d","1">> }
ExcludeInputs == { <<>>, <<"n","o">> }
DateInputs == { <<>>, <<Today - 1>>, <<Today>> }
QuickRanges == {0, 7}

\* the controls as build_html writes them
DefaultControls(users_prs, default_only_unresolved, default_hide_clean_prs) ==
  [states           |-> {s_open, s_merged},
   kinds            |-> {"unresolved", "resolved", "none"},
   hide_clean       |-> default_hide_clean_prs,
   only_unresolved  |-> default_only_unresolved,
   only_resolved    |-> FALSE,
   hide_replies     |-> FALSE,
   hide_empty_users |-> TRUE,
   keyword          |-> <<>>,
   exclude          |-> <<>>,
   labels           |-> {},
   types            |-> {},
   targets          |-> target_branches(users_prs),
   users            |-> cfg_users(users_prs),
   date_start       |-> <<>>,
   date_end         |-> <<>>,
   date_field       |-> "created",
   sort             |-> "created"]

\* --only-unresolved and --hide-clean-prs of the command line
CliFlags == { <<FALSE, FALSE>>, <<TRUE, TRUE>> }

\* the end date defaults to today, then the first wrappedApply
InitFilter ==
  /\ dataset \in Datasets
  /\ \E args \in CliFlags :
       controls = [DefaultControls(dataset, args[1], args[2]) EXCEPT !.date_end = <<Today>>]
  /\ dom = applyFilters(build_html(dataset), controls)
  /\ stats = refreshStats(dom)
  /\ filter_summary = updateSummary(controls)
  /\ keywordDebounce = FALSE
  /\ filter_steps = 0
  /\ IdleNotFilter

\* wrappedApply, run with the controls as the event left them
wrappedApply(ctl) ==
  /\ controls' = ctl
  /\ dom' = applyFilters(dom, ctl)
  /\ filter_summary' = updateSummary(ctl)
  /\ stats' = refreshStats(dom')

\* the page handles one more event of a control bound to wrappedApply
CanHandleEvent == filter_steps < MaxFilterSteps

EventHandled ==
  /\ filter_steps' = filter_steps + 1
  /\ UNCHANGED <<dataset, keywordDebounce, notFilter>>

Toggle(set, e) == IF e \in set THEN set \ {e} ELSE set \cup {e}

ToggleState ==
  /\ CanHandleEvent
  /\ \E s \in StateOptions :
        wrappedApply([controls EXCEPT !.states = Toggle(@, s)])
  /\ EventHandled

ToggleCommentKind ==
  /\ CanHandleEvent
  /\ \E k \in CommentKindOptions :
        wrappedApply([controls EXCEPT !.kinds = Toggle(@, k)])
  /\ EventHandled

ToggleHideClean ==
  /\ CanHandleEvent
  /\ wrappedApply([controls EXCEPT !.hide_clean = ~@])
  /\ EventHandled

ToggleOnlyUnresolved ==
  /\ CanHandleEvent
  /\ wrappedApply([controls EXCEPT !.only_unresolved = ~@])
  /\ EventHandled

ToggleOnlyResolved ==
  /\ CanHandleEvent
  /\ wrappedApply([controls EXCEPT !.only_resolved = ~@])
  /\ EventHandled

ToggleHideReplies ==
  /\ CanHandleEvent
  /\ wrappedApply([controls EXCEPT !.hide_replies = ~@])
  /\ EventHandled

ToggleHideEmptyUsers ==
  /\ CanHandleEvent
  /\ wrappedApply([controls EXCEPT !.hide_empty_users = ~@])
  /\ EventHandled

ToggleIssueLabel ==
  /\ CanHandleEvent
  /\ \E lab \in issue_labels(dataset) :
        wrappedApply([controls EXCEPT !.labels = Toggle(@, lab)])
  /\ EventHandled

TogglePrType ==
  /\ CanHandleEvent
  /\ \E t \in pr_types(dataset) :
        wrappedApply([controls EXCEPT !.types = Toggle(@, t)])
  /\ EventHandled

ToggleTarget ==
  /\ CanHandleEvent
  /\ \E t \in target_branches(dataset) :
        wrappedApply([controls EXCEPT !.targets = Toggle(@, t)])
  /\ EventHandled

ToggleUser ==
  /\ CanHandleEvent
  /\ \E u \in cfg_users(dataset) :
        wrappedApply([controls EXCEPT !.users = Toggle(@, u)])
  /\ EventHandled

UserSelectAll ==
  /\ CanHandleEvent
  /\ wrappedApply([controls EXCEPT !.users = cfg_users(dataset)])
  /\ EventHandled

UserSelectNone ==
  /\ CanHandleEvent
  /\ wrappedApply([controls EXCEPT !.users = {}])
  /\ EventHandled

SetDateStart ==
  /\ CanHandleEvent
  /\ \E v \in DateInputs \ {controls.date_start} :
        wrappedApply([controls EXCEPT !.date_start = v])
  /\ EventHandled

SetDateEnd ==
  /\ CanHandleEvent
  /\ \E v \in DateInputs \ {controls.date_end} :
        wrappedApply([controls EXCEPT !.date_end = v])
  /\ EventHandled

SetDateField ==
  /\ CanHandleEvent
  /\ \E v \in DateFieldOptions \ {controls.date_field} :
        wrappedApply([controls EXCEPT !.date_field = v])
  /\ EventHandled

SetSort ==
  /\ CanHandleEvent
  /\ \E v \in SortOptions \ {controls.sort} :
        wrappedApply([controls EXCEPT !.sort = v])
  /\ EventHandled

\* the quick button "open with unresolved comments"
QuickOpenUnresolved ==
  /\ CanHandleEvent
  /\ wrappedApply([controls EXCEPT !.states = {s_open}, !.kinds = {"unresolved"},
                                   !.only_unresolved = TRUE, !.hide_clean = TRUE])
  /\ EventHandled

\* the date quick buttons: the last `range` days, or no range at all
DateQuick ==
  /\ CanHandleEvent
  /\ \E range \in QuickRanges :
        wrappedApply(IF range = 0
                     THEN [controls EXCEPT !.date_start = <<>>, !.date_end = <<>>]
                     ELSE [controls EXCEPT !.date_start = <<Today - range + 1>>,
                                           !.date_end = <<Today>>])
  /\ EventHandled

\* typing in a keyword input only arms the timer
InputKeyword ==
  /\ CanHandleEvent
  /\ \E v \in KeywordInputs \ {controls.keyword} :
        controls' = [controls EXCEPT !.keyword = v]
  /\ keywordDebounce' = TRUE
  /\ filter_steps' = filter_steps + 1
  /\ UNCHANGED <<dataset, dom, stats, filter_summary, notFilter>>

InputExclude ==
  /\ CanHandleEvent
  /\ \E v \in ExcludeInputs \ {controls.exclude} :
        controls' = [controls EXCEPT !.exclude = v]
  /\ keywordDebounce' = TRUE
  /\ filter_steps' = filter_steps + 1
  /\ UNCHANGED <<dataset, dom, stats, filter_summary, notFilter>>

\* the timer fires: wrappedApply
DebounceFires ==
  /\ keywordDebounce
  /\ wrappedApply(controls)
  /\ keywordDebounce' = FALSE
  /\ UNCHANGED <<dataset, filter_steps, notFilter>>

NextFilter ==
  \/ ToggleState \/ ToggleCommentKind \/ ToggleHideClean
  \/ ToggleOnlyUnresolved \/ ToggleOnlyResolved \/ ToggleHideReplies
  \/ ToggleHideEmptyUsers \/ ToggleIssueLabel \/ TogglePrType \/ ToggleTarget
  \/ ToggleUser \/ UserSelectAll \/ UserSelectNone
  \/ SetDateStart \/ SetDateEnd \/ SetDateField \/ SetSort
  \/ QuickOpenUnresolved \/ DateQuick
  \/ InputKeyword \/ InputExclude \/ DebounceFires

SpecFilter == InitFilter /\ [][NextFilter]_vars

\* the controls were applied since the keyword inputs last changed
FiltersApplied ==
  /\ filter_summary.keyword = Strip(controls.keyword)
  /\ filter_summary.exclude = Strip(controls.exclude)

-----------------------------------------------------------------------------
(* Claims about the filter engine.  The PR behind a card and the comment
   behind a review item are looked up in the data by number and by id. *)

CardsOf(d) == AllCards(d.users)

PrOf(number) ==
  CHOOSE pr \in {AllPrs(dataset)[i] : i \in 1..Len(AllPrs(dataset))} : pr.number = number

CommentOf(id) ==
  CHOOSE cm \in UNION {{pr.comments[i] : i \in 1..Len(pr.comments)} :
                         pr \in {AllPrs(dataset)[i] : i \in 1..Len(AllPrs(dataset))}} :
    cm.id = id

ParentsOf(pr) == SelectSeq(pr.comments, LAMBDA cm : ~cm.is_reply)

TagsOf(pr) ==
  (IF \E i \in 1..Len(ParentsOf(pr)) : ParentsOf(pr)[i].resolved = R_FALSE
   THEN {"unresolved"} ELSE {})
  \cup (IF \E i \in 1..Len(ParentsOf(pr)) : ParentsOf(pr)[i].resolved = R_TRUE
        THEN {"resolved"} ELSE {})
  \cup (IF ParentsOf(pr) = <<>> THEN {"none"} ELSE {})

InDateRange(pr, ctl) ==
  LET t == IF ctl.date_field = "updated" THEN pr.updated_at ELSE pr.created_at
  IN \/ t = <<>>
     \/ /\ ctl.date_start # <<>> => ctl.date_start[1] * HalfDaysPerDay <= t[1]
        /\ ctl.date_end # <<>> => t[1] <= (ctl.date_end[1] + 1) * HalfDaysPerDay

CleanAndClosed(pr) ==
  /\ Lower(pr.state) # s_open
  /\ \A i \in 1..Len(ParentsOf(pr)) : ParentsOf(pr)[i].resolved # R_FALSE

\* the six filter categories of a PR, the hide_clean rule left aside
CategoriesHold(pr, ctl) ==
  /\ Lower(pr.state) \in getSelectedStates(ctl)
  /\ TagsOf(pr) \cap getSelectedCommentKinds(ctl) # {}
  /\ InDateRange(pr, ctl)
  /\ ctl.labels = {} \/ \E i \in 1..Len(pr.issues) :
                           \E j \in 1..Len(pr.issues[i].labels) : pr.issues[i].labels[j] \in ctl.labels
  /\ ctl.types = {} \/ _infer_pr_type(pr.title) \in ctl.types
  /\ ctl.targets = {} \/ pr.target_branch \in ctl.targets

\* some reply of the PR shows the keyword in its rendered text
ReplyShowsKeyword(pr, ctl) ==
  \E i \in 1..Len(pr.comments) :
     /\ pr.comments[i].is_reply
     /\ Includes(Lower(BodyTextOf(pr.comments[i], TRUE)), Lower(Strip(ctl.keyword)))

KeywordKeeps(pr, ctl) == Strip(ctl.keyword) = <<>> \/ ReplyShowsKeyword(pr, ctl)

C4_HideClean ==
  FiltersApplied =>
    \A i \in 1..Len(CardsOf(dom)) :
       LET card == CardsOf(dom)[i]
           pr == PrOf(card.pr_number)
           kept == CategoriesHold(pr, controls) /\ KeywordKeeps(pr, controls)
       IN /\ (controls.hide_clean /\ CleanAndClosed(pr)) => ~card.display
          /\ Lower(pr.state) = s_open => (card.display <=> kept)
          /\ ~controls.hide_clean => (card.display <=> kept)

\* hide_clean is on: a merged PR without unresolved comments that passes the
\* other filters is hidden, an open PR without unresolved comments is shown
C4_Witness ==
  /\ FiltersApplied
  /\ filter_steps > 0
  /\ controls.hide_clean
  /\ \E i, j \in 1..Len(CardsOf(dom)) :
        LET pi == PrOf(CardsOf(dom)[i].pr_number)
            pj == PrOf(CardsOf(dom)[j].pr_number)
        IN /\ Lower(pi.state) = s_merged /\ CleanAndClosed(pi)
           /\ CategoriesHold(pi, controls) /\ KeywordKeeps(pi, controls)
           /\ ~CardsOf(dom)[i].display
           /\ Lower(pj.state) = s_open /\ unresolved_count(pj.comments) = 0
           /\ CardsOf(dom)[j].display

\* ---- keyword cascade ----
KeywordOnly ==
  /\ FiltersApplied
  /\ Strip(controls.keyword) # <<>>
  /\ Strip(controls.exclude) = <<>>
  /\ ~controls.only_unresolved
  /\ ~controls.only_resolved
  /\ ~controls.hide_replies

HasKeyword(text) == Includes(Lower(text), Lower(Strip(controls.keyword)))

\* the replies of the card's items that hang under the parent item
RepliesUnder(items, parent) ==
  {j \in 1..Len(items) : items[j].is_reply /\ items[j].parent_id = <<parent.comment_id>>}

\* C5, as stated: with only a keyword set, a reply is shown iff its body
\* contains the keyword, case-insensitively, and a parent comment is shown iff
\* the body of one of its replies does.
C5_KeywordCascade ==
  KeywordOnly =>
    \A c \in 1..Len(CardsOf(dom)) :
       LET items == CardsOf(dom)[c].items
       IN \A i \in 1..Len(items) :
             IF items[i].is_reply
             THEN items[i].display <=> HasKeyword(CommentOf(items[i].comment_id).body)
             ELSE items[i].display <=>
                    \E j \in RepliesUnder(items, items[i]) :
                       HasKeyword(CommentOf(items[j].comment_id).body)

\* C5, for the text the page shows: with only a keyword set, a reply is shown
\* iff the text rendered for it contains the keyword, and a parent comment is
\* shown iff the text rendered for one of its replies does.
C5_RenderedKeywordCascade ==
  KeywordOnly =>
    \A c \in 1..Len(CardsOf(dom)) :
       LET items == CardsOf(dom)[c].items
       IN \A i \in 1..Len(items) :
             IF items[i].is_reply
             THEN items[i].display <=>
                    HasKeyword(BodyTextOf(CommentOf(items[i].comment_id), TRUE))
             ELSE items[i].display <=>
                    \E j \in RepliesUnder(items, items[i]) :
                       HasKeyword(BodyTextOf(CommentOf(items[j].comment_id), TRUE))

\* only a keyword is set: in one card a reply with the keyword is shown with
\* its parent, whose own body lacks it, and a parent whose body has the
\* keyword is hidden together with its reply
C5_Witness ==
  /\ KeywordOnly
  /\ \E c \in 1..Len(CardsOf(dom)) :
        LET items == CardsOf(dom)[c].items
        IN \E p, r, q \in 1..Len(items) :
              /\ ~items[p].is_reply /\ items[p].display
              /\ ~HasKeyword(CommentOf(items[p].comment_id).body)
              /\ r \in RepliesUnder(items, items[p]) /\ items[r].display
              /\ ~items[q].is_reply /\ ~items[q].display
              /\ HasKeyword(CommentOf(items[q].comment_id).body)
              /\ RepliesUnder(items, items[q]) # {}

\* ---- comment display flags ----
ShownCards(d) ==
  {<<CardsOf(d)[i].username, CardsOf(d)[i].pr_number>> :
     i \in {j \in 1..Len(CardsOf(d)) : CardsOf(d)[j].display}}

ShownUsers(d) == {d.users[i].username : i \in {j \in 1..Len(d.users) : d.users[j].display}}

DisplayFlags(ctl) == <<ctl.only_unresolved, ctl.only_resolved, ctl.hide_replies>>

OnlyDisplayFlagsDiffer(c1, c2) ==
  /\ DisplayFlags(c1) # DisplayFlags(c2)
  /\ [c1 EXCEPT !.only_unresolved = c2.only_unresolved,
                !.only_resolved = c2.only_resolved,
                !.hide_replies = c2.hide_replies] = c2

\* C6: when the applied filters change in only_unresolved, only_resolved or
\* hide_replies and in nothing else, the shown cards, the shown user blocks
\* and the four summary counts stay as they were.
C6_DisplayFlagsKeepCards ==
  [][ (FiltersApplied /\ FiltersApplied' /\ OnlyDisplayFlagsDiffer(controls, controls'))
        => /\ ShownCards(dom') = ShownCards(dom)
           /\ ShownUsers(dom') = ShownUsers(dom)
           /\ stats' = stats ]_vars

\* only_unresolved was switched on in the page: a card that counts is shown
\* although every one of its review items is hidden
C6_Witness ==
  /\ FiltersApplied
  /\ controls.only_unresolved /\ ~controls.hide_clean
  /\ \E b \in 1..Len(dom.users) :
        /\ dom.users[b].display
        /\ \E c \in 1..Len(dom.users[b].cards) :
              LET card == dom.users[b].cards[c]
              IN /\ card.display
                 /\ card.items # <<>>
                 /\ \A i \in 1..Len(card.items) : ~card.items[i].display
                 /\ stats.total > 0

\* ---- replies and the aggregates ----
WithoutReplies(users_prs) ==
  [u \in 1..Len(users_prs) |->
     [users_prs[u] EXCEPT !.prs =
        [p \in 1..Len(@) |->
           [@[p] EXCEPT !.comments = SelectSeq(@, LAMBDA cm : ~cm.is_reply)]]]]

WithRepliesFlipped(users_prs) ==
  [u \in 1..Len(users_prs) |->
     [users_prs[u] EXCEPT !.prs =
        [p \in 1..Len(@) |->
           [@[p] EXCEPT !.comments =
              [i \in 1..Len(@) |->
                 IF @[i].is_reply
                 THEN [@[i] EXCEPT !.resolved = IF @ = R_TRUE THEN R_FALSE ELSE R_TRUE]
                 ELSE @[i]]]]]]

HasReplies(users_prs) ==
  \E i \in 1..Len(AllPrs(users_prs)) :
     \E j \in 1..Len(AllPrs(users_prs)[i].comments) : AllPrs(users_prs)[i].comments[j].is_reply

\* counts and tags of every card
AggregatesOf(cards) ==
  {<<cards[i].pr_number, cards[i].unresolved_count,
     cards[i].resolved_count, commentTags(cards[i])>> : i \in 1..Len(cards)}

CardAggregates(d) == AggregatesOf(CardsOf(d))

\* the summary count of PRs with unresolved comments and the two rollups agree
SamePageAggregates(d1, d2) ==
  /\ refreshStats(d1).unresolved = refreshStats(d2).unresolved
  /\ refreshIssueView(d1) = refreshIssueView(d2)
  /\ refreshReceivedView(d1) = refreshReceivedView(d2)

\* the page for other data, under the controls of this page
PageFor(users_prs) == applyFilters(build_html(users_prs), controls)

RepliesCountOnlyThroughVisibility(without, flipped) ==
  /\ CardAggregates(without) = CardAggregates(dom)
  /\ CardAggregates(flipped) = CardAggregates(dom)
  /\ SamePageAggregates(flipped, dom)
  /\ Strip(controls.keyword) = <<>> => refreshStats(without).unresolved = stats.unresolved

-----------------------------------------------------------------------------
(* PR enrichment: fetch_repo_user_data, fetch_issues_for_pr, fetch_files_for_pr *)

FilesPerPage  == 2     \* per_page of the files request (the code asks for 100)
FilesMaxPages == 2     \* max_pages of the files request (the code stops after 10)

\* CODE_STAT_SUFFIXES
CODE_STAT_SUFFIXES ==
  { <<".","c","j">>, <<".","c">>, <<".","c","p","p">>, <<".","h">>, <<".","m","d">> }

no_ext == <<"(","n","o","_","e","x","t",")">>

\* str.rfind(c) + 1 / lastIndexOf(c) + 1: the last position of c in s, 0 if none
LastIndexOf(s, c) ==
  IF \E i \in 1..Len(s) : s[i] = c
  THEN CHOOSE i \in 1..Len(s) : s[i] = c /\ \A j \in (i + 1)..Len(s) : s[j] # c
  ELSE 0

\* os.path.basename(name) / name.split('/').pop()
basename(name) == SubSeq(name, LastIndexOf(name, "/") + 1, Len(name))

\* os.path.splitext(base)[1]: the text from the last dot on, provided a
\* character other than a dot stands before that dot
splitext_ext(base) ==
  LET d == LastIndexOf(base, ".")
  IN IF d > 0 /\ \E i \in 1..(d - 1) : base[i] # "."
     THEN SubSeq(base, d, Len(base))
     ELSE <<>>

\* _ext_from_filename
_ext_from_filename(name) ==
  LET base == basename(name)
      ext == splitext_ext(base)
  IN IF base = <<>> THEN no_ext
     ELSE IF ext # <<>> THEN Lower(ext)
     ELSE IF Head(base) = "." /\ Len(base) > 1 THEN Lower(base)
     ELSE no_ext

\* extFromFilename of the page's script
extFromFilename(name) ==
  LET base == basename(name)
      dot == LastIndexOf(base, ".") - 1
  IN IF base = <<>> THEN no_ext
     ELSE IF dot > 0 THEN Lower(SubSeq(base, dot + 1, Len(base)))
     ELSE IF Head(base) = "." /\ Len(base) > 1 THEN Lower(base)
     ELSE no_ext

ExtOf(variant, name) ==
  IF variant = "client" THEN extFromFilename(name) ELSE _ext_from_filename(name)

Digits == <<"0","1","2","3","4","5","6","7","8","9">>
IsDigit(c) == \E i \in 1..10 : Digits[i] = c
DigitVal(c) == (CHOOSE i \in 1..10 : Digits[i] = c) - 1

RECURSIVE DigitsValue(_, _)
DigitsValue(s, acc) ==
  IF s = <<>> \/ ~IsDigit(Head(s)) THEN acc
  ELSE DigitsValue(Tail(s), acc * 10 + DigitVal(Head(s)))

\* int(x or 0) inside `try ... except (TypeError, ValueError): 0`
IntOrZero(x) ==
  CASE x.t = "num" -> x.v
    [] x.t = "bool" -> IF x.v THEN 1 ELSE 0
    [] x.t = "str" -> IF x.v # <<>> /\ \A i \in 1..Len(x.v) : IsDigit(x.v[i])
                      THEN DigitsValue(x.v, 0)
                      ELSE 0
    [] OTHER -> 0

\* parseInt(x || 0, 10) || 0
parseIntOrZero(x) ==
  CASE x.t = "num" -> x.v
    [] x.t = "str" -> DigitsValue(x.v, 0)
    [] OTHER -> 0

ToCount(variant, x) ==
  IF variant = "client" THEN parseIntOrZero(x) ELSE IntOrZero(x)

\* it.get("filename") or it.get("new_path") or ""
FileNameOf(it) == IF it.filename # <<>> THEN it.filename ELSE it.new_path

FileItem(filename, new_path, additions, deletions) ==
  [filename |-> filename, new_path |-> new_path,
   additions |-> additions, deletions |-> deletions]

\* the file records the files endpoint may return
FileItems ==
  { FileItem(<<"a",".","c">>, <<>>, JNum(1), JNum(0)),
    FileItem(<<"d","/","B",".","M","D">>, <<>>, JStr(<<"2">>), JNum(1)),
    FileItem(<<>>, <<"M","a","k","e">>, JNum(2), JNum(0)),
    FileItem(<<"x",".","p","y">>, <<>>, JNum(1), JStr(<<"2","x">>)),
    FileItem(<<".",".","c">>, <<>>, JNum(1), JNull) }

\* f"{name}|{add}|{dele}"
ItemKey(variant, it) ==
  <<FileNameOf(it), ToCount(variant, it.additions), ToCount(variant, it.deletions)>>

EmptyBucket == [additions |-> 0, deletions |-> 0, files |-> 0]

\* A variant of the test that lets every extension through.
ExtTracked_any(ext) == TRUE

\* `ext in CODE_STAT_SUFFIXES`
ExtTracked(ext) == ext \in CODE_STAT_SUFFIXES

\* bucket = stats.setdefault(ext, {...}); bucket[...] += ...
AddToBucket(st, ext, add, dele) ==
  LET old == IF ext \in DOMAIN st THEN st[ext] ELSE EmptyBucket
  IN [k \in (DOMAIN st) \cup {ext} |->
        IF k = ext
        THEN [additions |-> old.additions + add,
              deletions |-> old.deletions + dele,
              files |-> old.files + 1]
        ELSE st[k]]

FileLocals(ta, td, tf, st, seen, new_items) ==
  [total_add |-> ta, total_del |-> td, total_files |-> tf, stats |-> st,
   seen_items |-> seen, new_items |-> new_items]

\* A variant of the loop body that does not look the key up in seen_items.
CountItem_recount(l, key, ext) ==
  IF ~ExtTracked(ext)
  THEN [l EXCEPT !.seen_items = @ \cup {key}, !.new_items = @ + 1]
  ELSE FileLocals(l.total_add + key[2], l.total_del + key[3], l.total_files + 1,
                  AddToBucket(l.stats, ext, key[2], key[3]),
                  l.seen_items \cup {key}, l.new_items + 1)

\* the body of `for it in items` once key and ext are computed
CountItem(l, key, ext) ==
  IF key \in l.seen_items THEN l
  ELSE IF ~ExtTracked(ext)
  THEN [l EXCEPT !.seen_items = @ \cup {key}, !.new_items = @ + 1]
  ELSE FileLocals(l.total_add + key[2], l.total_del + key[3], l.total_files + 1,
                  AddToBucket(l.stats, ext, key[2], key[3]),
                  l.seen_items \cup {key}, l.new_items + 1)

\* the answer that is neither a list nor an object, read as an item by the script
BlankItem == FileItem(<<>>, <<>>, Absent, Absent)

\* key and ext of each item, as the two variants compute them
ItemFacts ==
  [variant \in {"site", "client"} |->
     [it \in FileItems \cup {BlankItem} |->
        [key |-> ItemKey(variant, it), ext |-> ExtOf(variant, FileNameOf(it))]]]

\* one iteration of `for it in items`
ProcessItem(variant, it, l) ==
  CountItem(l, ItemFacts[variant][it].key, ItemFacts[variant][it].ext)

\* `for it in items`
RECURSIVE ProcessItems(_, _, _)
ProcessItems(variant, items, l) ==
  IF items = <<>> THEN l
  ELSE ProcessItems(variant, Tail(items), ProcessItem(variant, Head(items), l))

\* Optional[int]: None is <<>>, the integer n is <<n>>
NoInt == <<>>
SomeInt(n) == <<n>>

\* PRInfo as the lister returns it: the fields enrichment fills, at their defaults
ListedPr(number) ==
  [number |-> number, comments |-> <<>>, issues |-> <<>>,
   additions |-> NoInt, deletions |-> NoInt, changed_files |-> NoInt,
   file_stats |-> <<>>]

ListedPrLists == { <<ListedPr(1)>>, <<ListedPr(1), ListedPr(2)>> }

\* what fetch_comments_for_pr / fetch_issues_for_pr may return for one PR
CommentLists == { <<>>, <<"c1">> }
IssueLists == { <<>>, <<"i7">> }

FilePages == UNION { [1..n -> FileItems] : n \in 1..FilesPerPage }

NothingGot ==
  [comments |-> <<>>, issues |-> "pending", issue_list |-> <<>>,
   files |-> "pending", items |-> {}, partial |-> 0]

InitEnrich ==
  /\ en_variant \in {"site", "client"}
  /\ code_stats_enabled \in BOOLEAN
  /\ en_prs \in ListedPrLists
  /\ en_idx = 1
  /\ en_result = <<>>
  /\ en_pc = "comments"
  /\ f_page = 0
  /\ total_add = 0
  /\ total_del = 0
  /\ total_files = 0
  /\ f_stats = <<>>
  /\ seen_items = {}
  /\ f_last = NoAnswer
  /\ en_got = [i \in 1..Len(en_prs) |-> NothingGot]
  /\ IdleNotEnrich

enrichConfig == <<en_variant, code_stats_enabled>>
fileLocals == <<f_page, total_add, total_del, total_files, f_stats, seen_items, f_last>>

\* the locals of fetch_files_for_pr are gone once it returned
FileLocalsGone ==
  /\ f_page' = 0
  /\ total_add' = 0
  /\ total_del' = 0
  /\ total_files' = 0
  /\ f_stats' = <<>>
  /\ seen_items' = {}
  /\ f_last' = NoAnswer

\* result.append(pr) and the next iteration of `for pr in prs`
AppendAndNext ==
  /\ en_result' = Append(en_result, en_prs'[en_idx])
  /\ IF en_idx < Len(en_prs)
     THEN en_idx' = en_idx + 1 /\ en_pc' = "comments"
     ELSE en_idx' = en_idx /\ en_pc' = "done"

\* pr.comments = fetch_comments_for_pr(...)
EnrichComments ==
  /\ en_pc = "comments"
  /\ \E cs \in CommentLists :
        /\ en_prs' = [en_prs EXCEPT ![en_idx].comments = cs]
        /\ en_got' = [en_got EXCEPT ![en_idx].comments = cs]
  /\ en_pc' = "issues"
  /\ UNCHANGED <<enrichConfig, en_idx, en_result, fileLocals, notEnrich>>

\* fetch_comments_for_pr raises: nothing in fetch_repo_user_data catches it
\* (the page's fetchCommentsForPr catches and returns what it has)
EnrichCommentsRaise ==
  /\ en_pc = "comments"
  /\ en_variant = "site"
  /\ en_pc' = "raised"
  /\ UNCHANGED <<enrichConfig, en_prs, en_idx, en_result, fileLocals, en_got, notEnrich>>

\* pr.issues = fetch_issues_for_pr(...): the request answered
EnrichIssues ==
  /\ en_pc = "issues"
  /\ \E is \in IssueLists :
        /\ en_prs' = [en_prs EXCEPT ![en_idx].issues = is]
        /\ en_got' = [en_got EXCEPT ![en_idx].issues = "ok", ![en_idx].issue_list = is]
  /\ en_pc' = "code_stats"
  /\ UNCHANGED <<enrichConfig, en_idx, en_result, fileLocals, notEnrich>>

\* fetch_issues_for_pr: `except Exception: return []`
EnrichIssuesFail ==
  /\ en_pc = "issues"
  /\ en_prs' = [en_prs EXCEPT ![en_idx].issues = <<>>]
  /\ en_got' = [en_got EXCEPT ![en_idx].issues = "failed"]
  /\ en_pc' = "code_stats"
  /\ UNCHANGED <<enrichConfig, en_idx, en_result, fileLocals, notEnrich>>

\* `if code_stats_enabled:` is false
CodeStatsSkipped ==
  /\ en_pc = "code_stats"
  /\ ~code_stats_enabled
  /\ en_prs' = en_prs
  /\ en_got' = [en_got EXCEPT ![en_idx].files = "skipped"]
  /\ AppendAndNext
  /\ UNCHANGED <<enrichConfig, fileLocals, notEnrich>>

\* entry of fetch_files_for_pr
FilesCall ==
  /\ en_pc = "code_stats"
  /\ code_stats_enabled
  /\ f_page' = 1
  /\ total_add' = 0
  /\ total_del' = 0
  /\ total_files' = 0
  /\ f_stats' = <<>>
  /\ seen_items' = {}
  /\ f_last' = NoAnswer
  /\ en_pc' = "files"
  /\ UNCHANGED <<enrichConfig, en_prs, en_idx, en_result, en_got, notEnrich>>

\* pr.additions = add; pr.deletions = dele; pr.changed_files = files;
\* pr.file_stats = stats or {}
WithFiles(pr, ret) ==
  [pr EXCEPT !.additions = ret[1], !.deletions = ret[2],
             !.changed_files = ret[3], !.file_stats = ret[4]]

\* A variant of the except branch that returns the totals gathered so far.
FilesFailed_partial(ta, td, tf, st) == <<SomeInt(ta), SomeInt(td), SomeInt(tf), st>>

\* `except Exception: return None, None, None, {}`
FilesFailed(ta, td, tf, st) == <<NoInt, NoInt, NoInt, <<>>>>

\* the files request fails: `return None, None, None, {}`, which the caller
\* stores in the PR
FilesRequestFails ==
  /\ en_pc = "files"
  /\ en_prs' = [en_prs EXCEPT
                  ![en_idx] = WithFiles(@, FilesFailed(total_add, total_del,
                                                       total_files, f_stats))]
  /\ en_got' = [en_got EXCEPT ![en_idx].files = "failed", ![en_idx].items = {},
                              ![en_idx].partial = total_files]
  /\ FileLocalsGone
  /\ AppendAndNext
  /\ UNCHANGED <<enrichConfig, notEnrich>>

SetFileLocals(l) ==
  /\ total_add' = l.total_add
  /\ total_del' = l.total_del
  /\ total_files' = l.total_files
  /\ f_stats' = l.stats
  /\ seen_items' = l.seen_items

CurrentFileLocals ==
  FileLocals(total_add, total_del, total_files, f_stats, seen_items, 0)

\* `if not data: break`
FilesPageFalsy ==
  /\ en_pc = "files"
  /\ f_last' = Answer("falsy", <<>>)
  /\ en_pc' = "files_return"
  /\ UNCHANGED <<enrichConfig, en_prs, en_idx, en_result, f_page, total_add, total_del,
                 total_files, f_stats, seen_items, en_got, notEnrich>>

\* the answer is neither a list nor an object: Python breaks; the script
\* takes it as the one item of the page
FilesPageOther ==
  /\ en_pc = "files"
  /\ IF en_variant = "client"
     THEN SetFileLocals(ProcessItem(en_variant, BlankItem, CurrentFileLocals))
     ELSE UNCHANGED <<total_add, total_del, total_files, f_stats, seen_items>>
  /\ f_last' = Answer("other", <<>>)
  /\ en_pc' = "files_return"
  /\ UNCHANGED <<enrichConfig, en_prs, en_idx, en_result, f_page, en_got, notEnrich>>

\* the answer is one object: items = [data], and the loop ends after it
FilesPageDict ==
  /\ en_pc = "files"
  /\ \E it \in FileItems :
        /\ SetFileLocals(ProcessItem(en_variant, it, CurrentFileLocals))
        /\ f_last' = Answer("dict", <<it>>)
        /\ en_got' = [en_got EXCEPT ![en_idx].items = @ \cup {it}]
  /\ en_pc' = "files_return"
  /\ UNCHANGED <<enrichConfig, en_prs, en_idx, en_result, f_page, notEnrich>>

\* after `for it in items`:
\* `if not isinstance(data, list) or len(items) < per_page or new_items == 0: break`,
\* `page += 1`, `if page > max_pages: break`
AfterItems(items, l) ==
  /\ SetFileLocals(l)
  /\ IF Len(items) < FilesPerPage \/ l.new_items = 0
     THEN f_page' = f_page /\ en_pc' = "files_return"
     ELSE /\ f_page' = f_page + 1
          /\ en_pc' = IF f_page + 1 > FilesMaxPages THEN "files_return" ELSE "files"

\* the answer is a list of items: the for loop, then the test for the last page
FilesPage ==
  /\ en_pc = "files"
  /\ \E items \in FilePages :
        /\ AfterItems(items, ProcessItems(en_variant, items, CurrentFileLocals))
        /\ f_last' = Answer("list", items)
        /\ en_got' = [en_got EXCEPT
                        ![en_idx].items = @ \cup {items[i] : i \in 1..Len(items)}]
  /\ UNCHANGED <<enrichConfig, en_prs, en_idx, en_result, notEnrich>>

\* `return total_add, total_del, total_files, stats` and the caller's
\* assignments to the PR
FilesReturn ==
  /\ en_pc = "files_return"
  /\ en_prs' = [en_prs EXCEPT
                  ![en_idx] = WithFiles(@, <<SomeInt(total_add), SomeInt(total_del), SomeInt(total_files), f_stats>>)]
  /\ en_got' = [en_got EXCEPT ![en_idx].files = "ok", ![en_idx].items = {}]
  /\ FileLocalsGone
  /\ AppendAndNext
  /\ UNCHANGED <<enrichConfig, notEnrich>>

NextEnrich ==
  \/ EnrichComments
  \/ EnrichCommentsRaise
  \/ EnrichIssues
  \/ EnrichIssuesFail
  \/ CodeStatsSkipped
  \/ FilesCall
  \/ FilesRequestFails
  \/ FilesPageFalsy
  \/ FilesPageOther
  \/ FilesPageDict
  \/ FilesPage
  \/ FilesReturn

SpecEnrich == InitEnrich /\ [][NextEnrich]_vars

(* ---- C12 ---- *)
RECURSIVE SumAdditions(_)
SumAdditions(S) ==
  IF S = {} THEN 0
  ELSE LET x == CHOOSE x \in S : TRUE IN x.additions + SumAdditions(S \ {x})

RECURSIVE SumDeletions(_)
SumDeletions(S) ==
  IF S = {} THEN 0
  ELSE LET x == CHOOSE x \in S : TRUE IN x.deletions + SumDeletions(S \ {x})

RECURSIVE SumFiles(_)
SumFiles(S) ==
  IF S = {} THEN 0
  ELSE LET x == CHOOSE x \in S : TRUE IN x.files + SumFiles(S \ {x})

\* the buckets of a file_stats dictionary, each with its key
BucketsOf(st) ==
  { [ext |-> e, additions |-> st[e].additions, deletions |-> st[e].deletions,
     files |-> st[e].files] : e \in DOMAIN st }

\* additions, deletions and changed_files are the sums over the buckets, and
\* every bucket key is in the allow-list
TotalsMatchBuckets(ta, td, tf, st) ==
  /\ ta = SumAdditions(BucketsOf(st))
  /\ td = SumDeletions(BucketsOf(st))
  /\ tf = SumFiles(BucketsOf(st))
  /\ DOMAIN st \subseteq CODE_STAT_SUFFIXES

\* the distinct files (name, additions, deletions) among the received items,
\* each with its bucket
DistinctFiles(variant, received) ==
  { [name |-> FileNameOf(it), ext |-> ExtOf(variant, FileNameOf(it)),
     additions |-> ToCount(variant, it.additions),
     deletions |-> ToCount(variant, it.deletions), files |-> 1] : it \in received }

\* only the files of a tracked extension count, each once
OnlyTrackedCount(variant, received, ta, td, tf, st) ==
  LET tracked == {f \in DistinctFiles(variant, received) : f.ext \in CODE_STAT_SUFFIXES}
  IN /\ ta = SumAdditions(tracked)
     /\ td = SumDeletions(tracked)
     /\ tf = Cardinality(tracked)
     /\ DOMAIN st = {f.ext : f \in tracked}
     /\ \A e \in DOMAIN st :
           LET of_e == {f \in tracked : f.ext = e}
           IN /\ st[e].additions = SumAdditions(of_e)
              /\ st[e].deletions = SumDeletions(of_e)
              /\ st[e].files = Cardinality(of_e)

\* C12: after every processed page of fetch_files_for_pr, and in every PR the
\* call returned totals for, additions, deletions and changed_files equal the
\* sums of the additions, deletions and files fields over all file_stats
\* buckets and every bucket key is in the extension allow-list; a file whose
\* bucket is outside the allow-list, (no_ext) included, adds to neither the
\* totals nor any bucket.
C12_FileStatsTotals ==
  /\ en_pc \in {"files", "files_return"} =>
       /\ TotalsMatchBuckets(total_add, total_del, total_files, f_stats)
       /\ OnlyTrackedCount(en_variant, en_got[en_idx].items,
                           total_add, total_del, total_files, f_stats)
  /\ \A i \in 1..Len(en_result) :
        en_result[i].additions # NoInt =>
          TotalsMatchBuckets(en_result[i].additions[1], en_result[i].deletions[1],
                             en_result[i].changed_files[1], en_result[i].file_stats)

\* the second page of the second PR was processed: files of two tracked
\* extensions were counted, files outside the allow-list and a file without
\* extension were received and not counted, and the first PR has its totals
C12_Witness ==
  /\ en_pc = "files_return"
  /\ en_idx = 2
  /\ f_page > 1
  /\ Cardinality(DOMAIN f_stats) >= 2
  /\ \E it \in en_got[en_idx].items : ExtOf(en_variant, FileNameOf(it)) = no_ext
  /\ \E it \in en_got[en_idx].items :
        ExtOf(en_variant, FileNameOf(it)) \notin CODE_STAT_SUFFIXES \cup {no_ext}
  /\ en_result[1].changed_files # NoInt
  /\ en_result[1].changed_files[1] > 0

(* ---- C13 ---- *)
FilesUnknown(pr) ==
  /\ pr.additions = NoInt
  /\ pr.deletions = NoInt
  /\ pr.changed_files = NoInt
  /\ pr.file_stats = <<>>

FilesKnown(pr) ==
  /\ pr.additions # NoInt /\ pr.additions[1] \in Nat
  /\ pr.deletions # NoInt /\ pr.deletions[1] \in Nat
  /\ pr.changed_files # NoInt /\ pr.changed_files[1] \in Nat

\* C13: a failed issues request leaves the PR with an empty issue list; a
\* failed files request, on the first or a later page, leaves additions,
\* deletions and changed_files unknown with empty file_stats. The PR stays in
\* the result, in its place, with the comments that were fetched for it; the
\* other PRs keep what their own requests delivered, and the PRs not yet
\* reached are untouched. The three totals are all unknown or all integers.
C13_EnrichmentDegradesPerPr ==
  /\ Len(en_result) <= Len(en_prs)
  /\ en_pc = "done" => Len(en_result) = Len(en_prs)
  /\ \A i \in 1..Len(en_result) :
        LET pr == en_result[i]
            got == en_got[i]
        IN /\ pr.number = i
           /\ pr = en_prs[i]
           /\ pr.comments = got.comments
           /\ got.issues = "failed" => pr.issues = <<>>
           /\ got.issues = "ok" => pr.issues = got.issue_list
           /\ got.files \in {"failed", "skipped"} => FilesUnknown(pr)
           /\ got.files = "ok" => FilesKnown(pr)
           /\ FilesUnknown(pr) \/ FilesKnown(pr)
  /\ \A i \in 1..Len(en_prs) :
        (en_pc \notin {"idle", "done"} /\ i > en_idx) => en_prs[i] = ListedPr(i)

\* both PRs are in the result: for one the issues request failed, for one a
\* files request failed after files had been counted, and the other one has
\* its issues and its totals
C13_Witness ==
  /\ en_pc = "done"
  /\ Len(en_result) = 2
  /\ \E i \in 1..2 : en_got[i].issues = "failed" /\ en_result[i].comments # <<>>
  /\ \E i, j \in 1..2 :
        /\ i # j
        /\ en_got[i].files = "failed" /\ en_got[i].partial > 0
        /\ en_got[j].files = "ok" /\ en_result[j].changed_files[1] > 0
        /\ en_result[j].issues # <<>>

(* ---- C14 ---- *)
ChosenTs(pr, ctl) == IF ctl.date_field = "updated" THEN pr.updated_at ELSE pr.created_at

\* the start date and the end date plus 24 hours, as timestamps
StartOf(ctl) == ctl.date_start[1] * HalfDaysPerDay
EndPlusDay(ctl) == (ctl.date_end[1] + 1) * HalfDaysPerDay

\* start <= t and t < end + 24h, for the bounds that are set
InRangeEndExclusive(pr, ctl) ==
  LET t == ChosenTs(pr, ctl)
  IN \/ t = <<>>
     \/ /\ ctl.date_start # <<>> => StartOf(ctl) <= t[1]
        /\ ctl.date_end # <<>> => t[1] < EndPlusDay(ctl)

\* start <= t and t <= end + 24h, for the bounds that are set
InRangeEndInclusive(pr, ctl) ==
  LET t == ChosenTs(pr, ctl)
  IN \/ t = <<>>
     \/ /\ ctl.date_start # <<>> => StartOf(ctl) <= t[1]
        /\ ctl.date_end # <<>> => t[1] <= EndPlusDay(ctl)

WithoutDates(ctl) == [ctl EXCEPT !.date_start = <<>>, !.date_end = <<>>]

\* the cards shown for the same data and controls with both dates cleared
ShownWithoutDates ==
  ShownCards(applyFilters(build_html(dataset), WithoutDates(controls)))

\* of the cards the other filters keep, the date filter keeps those in range
DateFilterKeeps(shown_undated, InRange(_, _)) ==
  \A i \in 1..Len(CardsOf(dom)) :
     LET card == CardsOf(dom)[i]
     IN card.display <=>
          /\ <<card.username, card.pr_number>> \in shown_undated
          /\ InRange(PrOf(card.pr_number), controls)

\* C14, as stated: a PR is kept iff start <= t and t < end + 24h for the
\* bounds that are set, so a PR stamped exactly at end + 24h is dropped; a PR
\* whose timestamp cannot be parsed is kept.
C14_DateRangeEndExclusive ==
  FiltersApplied => DateFilterKeeps(ShownWithoutDates, InRangeEndExclusive)

\* C14, as the code has it: a PR is kept iff start <= t and t <= end + 24h
\* for the bounds that are set, so a PR stamped exactly at end + 24h is kept;
\* a PR whose timestamp cannot be parsed is kept.
C14_DateRangeEndInclusive ==
  FiltersApplied => DateFilterKeeps(ShownWithoutDates, InRangeEndInclusive)

\* both dates are set: a card stamped exactly at end + 24h is shown, and a
\* card the other filters keep is hidden for its date
C14_Witness ==
  /\ FiltersApplied
  /\ controls.date_start # <<>>
  /\ controls.date_end # <<>>
  /\ \E i, k \in 1..Len(CardsOf(dom)) :
        /\ CardsOf(dom)[i].display
        /\ ChosenTs(PrOf(CardsOf(dom)[i].pr_number), controls) = <<EndPlusDay(controls)>>
        /\ ~CardsOf(dom)[k].display
        /\ <<CardsOf(dom)[k].username, CardsOf(dom)[k].pr_number>> \in ShownWithoutDates

(* ---- C15 ---- *)
\* the visible cards of a user block that is shown, in the order of the page
VisibleInBlock(block) ==
  IF block.display THEN SelectSeq(block.cards, LAMBDA c : c.display) ELSE <<>>

CreatedOf(card) == ParseTs(PrOf(card.pr_number).created_at)
UpdatedOf(card) == ParseTs(PrOf(card.pr_number).updated_at)
UnresolvedOf(card) ==
  Len(SelectSeq(ParentsOf(PrOf(card.pr_number)), LAMBDA cm : cm.resolved = R_FALSE))

\* card a may stand before card b under the sort key, ties by PR number
\* for `created` and by created time for `unresolved`
OrderedWithTieBreak(a, b, sortKey) ==
  CASE sortKey = "created" ->
         \/ CreatedOf(a) > CreatedOf(b)
         \/ CreatedOf(a) = CreatedOf(b) /\ a.pr_number > b.pr_number
    [] sortKey = "updated" -> UpdatedOf(a) >= UpdatedOf(b)
    [] sortKey = "unresolved" ->
         \/ UnresolvedOf(a) > UnresolvedOf(b)
         \/ UnresolvedOf(a) = UnresolvedOf(b) /\ CreatedOf(a) >= CreatedOf(b)

\* the same without the tie-break by PR number
OrderedByKey(a, b, sortKey) ==
  CASE sortKey = "created" -> CreatedOf(a) >= CreatedOf(b)
    [] sortKey = "updated" -> UpdatedOf(a) >= UpdatedOf(b)
    [] sortKey = "unresolved" ->
         \/ UnresolvedOf(a) > UnresolvedOf(b)
         \/ UnresolvedOf(a) = UnresolvedOf(b) /\ CreatedOf(a) >= CreatedOf(b)

BlocksSorted(Ordered(_, _, _)) ==
  \A u \in 1..Len(dom.users) :
     LET vis == VisibleInBlock(dom.users[u])
     IN \A i, j \in 1..Len(vis) : i < j => Ordered(vis[i], vis[j], controls.sort)

\* C15, as stated: within each user's list the visible PRs stand by created
\* time descending and, for equal created time, by PR number descending
\* (`created`); by updated time descending (`updated`); by unresolved count
\* descending and, for equal counts, by created time descending
\* (`unresolved`), after any sequence of sort and filter changes.
C15_SortOrders == BlocksSorted(OrderedWithTieBreak)

\* C15 without the tie-break by PR number: the visible PRs of each user stand
\* by created time descending (`created`), by updated time descending
\* (`updated`), by unresolved count descending and then created time
\* descending (`unresolved`).
C15_SortOrdersByKey == BlocksSorted(OrderedByKey)

\* after two events the sort key is `created` and a user's list shows two
\* PRs of equal created time, the lower number first
C15_Witness ==
  /\ filter_steps = MaxFilterSteps
  /\ controls.sort = "created"
  /\ \E u \in 1..Len(dom.users) :
        LET vis == VisibleInBlock(dom.users[u])
        IN \E i, j \in 1..Len(vis) :
              /\ i < j
              /\ CreatedOf(vis[i]) = CreatedOf(vis[j])
              /\ vis[i].pr_number < vis[j].pr_number

(* ---- C16 ---- *)
\* the per-PR data the filters read, as the cards of a page carry it
PerPrData(d) ==
  { [username |-> c.username, pr_number |-> c.pr_number, state |-> c.state,
     total_comments |-> c.total_comments, unresolved_count |-> c.unresolved_count,
     resolved_count |-> c.resolved_count, issue_labels |-> c.issue_labels,
     pr_type |-> c.pr_type, target |-> c.target,
     created |-> c.created, updated |-> c.updated,
     resolved_flags |-> [i \in 1..Len(c.items) |->
                           <<c.items[i].comment_id, c.items[i].resolved>>]] :
      c \in {CardsOf(d)[i] : i \in 1..Len(CardsOf(d))} }

\* the visible PRs in page order, each with its visible comments in order
VisibleContent(d) ==
  [u \in 1..Len(d.users) |->
     LET vis == VisibleInBlock(d.users[u])
     IN [i \in 1..Len(vis) |->
           <<vis[i].pr_number,
             SelectSeq(vis[i].items, LAMBDA it : it.display)>>]]

\* a second run of applyFilters with the same controls gave the page `again`
SameAfterRerun(again) ==
  /\ ShownCards(again) = ShownCards(dom)
  /\ ShownUsers(again) = ShownUsers(dom)
  /\ VisibleContent(again) = VisibleContent(dom)
  /\ [u \in 1..Len(again.users) |->
        [i \in 1..Len(again.users[u].cards) |-> again.users[u].cards[i].pr_number]]
       = [u \in 1..Len(dom.users) |->
            [i \in 1..Len(dom.users[u].cards) |-> dom.users[u].cards[i].pr_number]]
  /\ refreshStats(again) = stats
  /\ again.repo_count = dom.repo_count
  /\ refreshIssueView(again) = refreshIssueView(dom)
  /\ refreshReceivedView(again) = refreshReceivedView(dom)
  /\ PerPrData(again) = PerPrData(dom)

\* C16: running applyFilters and the summary refresh once more with the same
\* data and the same controls gives the same visible PRs, the same visible
\* comments, the same card order and the same summary counts, and the
\* filtering pass never changes the per-PR data it reads: the page carries
\* for every PR what build_html wrote.
C16_FilterIdempotent ==
  FiltersApplied =>
    /\ SameAfterRerun(applyFilters(dom, controls))
    /\ updateSummary(controls) = filter_summary
    /\ PerPrData(dom) = PerPrData(build_html(dataset))

\* two events were handled: a user's list shows two cards of equal sort key
\* behind a hidden card, some comments of a shown card are hidden, and the
\* sort key is not the one the page started with
C16_Witness ==
  /\ FiltersApplied
  /\ filter_steps = MaxFilterSteps
  /\ controls.sort # "created"
  /\ \E u \in 1..Len(dom.users) :
        LET cards == dom.users[u].cards
        IN /\ dom.users[u].display
           /\ \E i \in 1..Len(cards) :
                 /\ cards[i].display
                 /\ \E k \in 1..Len(cards[i].items) : ~cards[i].items[k].display
           /\ \E i, j \in 1..Len(cards) :
                 /\ i < j /\ cards[i].display /\ cards[j].display
                 /\ CardSortKey(cards[i], controls.sort) = CardSortKey(cards[j], controls.sort)

-----------------------------------------------------------------------------
(* The terminal report: print_report_for_user (gitcode_pr_multi_repo.py) *)

MaxReportPrs == 2      \* a user has at most this many PRs

\* ReviewComment / PRInfo of the terminal tool: the fields the report reads
ReportComment(id, resolved) == [id |-> id, resolved |-> resolved]
ReportPrInfo(number, state, cms) == [number |-> number, state |-> state, comments |-> cms]

\* the PRs a user may have
ReportPrPool ==
  { ReportPrInfo(1, s_open, <<>>),
    ReportPrInfo(2, s_open, <<ReportComment(21, R_FALSE), ReportComment(22, R_TRUE)>>),
    ReportPrInfo(3, s_merged, <<ReportComment(31, R_TRUE), ReportComment(32, Unknown)>>),
    ReportPrInfo(4, s_Merged, <<ReportComment(41, Unknown), ReportComment(42, R_FALSE)>>),
    ReportPrInfo(5, s_closed, <<>>) }

ReportPrLists ==
  { l \in UNION { [1..n -> ReportPrPool] : n \in 0..MaxReportPrs } :
      \A i, j \in 1..Len(l) : l[i].number = l[j].number => i = j }

InitReport ==
  /\ rp_prs \in ReportPrLists
  /\ only_unresolved \in BOOLEAN
  /\ hide_clean_prs \in BOOLEAN
  /\ visible_prs = <<>>
  /\ rp_idx = 0
  /\ printed = <<>>
  /\ rp_pc = "call"
  /\ IdleNotReport

\* has_unresolved = any((cm.resolved is False) for cm in pr.comments)
has_unresolved(pr) == \E i \in 1..Len(pr.comments) : pr.comments[i].resolved = R_FALSE

\* the PRs print_report_for_user keeps
KeptPrs(prs_in, hide_clean) ==
  IF hide_clean THEN SelectSeq(prs_in, has_unresolved) ELSE prs_in

\* the comments listed under a PR
filtered_comments(pr, only) ==
  IF only
  THEN SelectSeq(pr.comments, LAMBDA cm : cm.resolved = R_FALSE)
  ELSE SelectSeq(pr.comments, LAMBDA cm : cm.resolved # Unknown)

\* the head of print_report_for_user: visible_prs, the banner, and the
\* return when no PR is left
ReportHeader ==
  /\ rp_pc = "call"
  /\ visible_prs' = KeptPrs(rp_prs, hide_clean_prs)
  /\ IF visible_prs' = <<>>
     THEN rp_pc' = "returned" /\ rp_idx' = 0
     ELSE rp_pc' = "prs" /\ rp_idx' = 1
  /\ UNCHANGED <<rp_prs, only_unresolved, hide_clean_prs, printed, notReport>>

\* one iteration of `for pr in visible_prs`
ReportPr ==
  /\ rp_pc = "prs"
  /\ printed' = Append(printed,
                       [number |-> visible_prs[rp_idx].number,
                        comments |-> filtered_comments(visible_prs[rp_idx], only_unresolved)])
  /\ IF rp_idx < Len(visible_prs)
     THEN rp_idx' = rp_idx + 1 /\ rp_pc' = "prs"
     ELSE rp_idx' = rp_idx /\ rp_pc' = "returned"
  /\ UNCHANGED <<rp_prs, only_unresolved, hide_clean_prs, visible_prs, notReport>>

NextReport ==
  \/ ReportHeader
  \/ ReportPr

SpecReport == InitReport /\ [][NextReport]_vars

(* ---- C17 ---- *)
UnresolvedIn(pr) == SelectSeq(pr.comments, LAMBDA cm : cm.resolved = R_FALSE)

\* the hide_clean rule of the filter engine: not open and no unresolved comment
CleanNotOpen(pr) == Lower(pr.state) # s_open /\ UnresolvedIn(pr) = <<>>

PrintedNumbers == [i \in 1..Len(printed) |-> printed[i].number]
NumbersIn(l) == [i \in 1..Len(l) |-> l[i].number]

\* with only_unresolved the comments under every printed PR are its
\* unresolved ones
ListsUnresolvedOnly ==
  only_unresolved =>
    \A i \in 1..Len(printed) :
       \E k \in 1..Len(rp_prs) :
          /\ rp_prs[k].number = printed[i].number
          /\ printed[i].comments = UnresolvedIn(rp_prs[k])

\* C17, as stated: with hide_clean_prs the report leaves out exactly the PRs
\* that are not open and have no unresolved comment, so an open PR is always
\* listed; without it every PR is listed; with only_unresolved the comments
\* listed are exactly the unresolved ones, and the PRs listed do not depend
\* on only_unresolved.
C17_TerminalHideCleanAsEngine ==
  rp_pc = "returned" =>
    /\ PrintedNumbers =
         NumbersIn(IF hide_clean_prs
                   THEN SelectSeq(rp_prs, LAMBDA pr : ~CleanNotOpen(pr))
                   ELSE rp_prs)
    /\ ListsUnresolvedOnly

\* C17, as the terminal tool has it: with hide_clean_prs the report leaves
\* out exactly the PRs without an unresolved comment, whatever their state;
\* without it every PR is listed; with only_unresolved the comments listed
\* are exactly the unresolved ones, and the PRs listed do not depend on
\* only_unresolved.
C17_TerminalHidesEveryCleanPr ==
  rp_pc = "returned" =>
    /\ PrintedNumbers =
         NumbersIn(IF hide_clean_prs
                   THEN SelectSeq(rp_prs, LAMBDA pr : UnresolvedIn(pr) # <<>>)
                   ELSE rp_prs)
    /\ ListsUnresolvedOnly

\* the report of an open PR without comments and a merged PR with an
\* unresolved comment, made with both flags: only the merged PR is printed,
\* with its unresolved comment
C17_Witness ==
  /\ rp_pc = "returned"
  /\ hide_clean_prs /\ only_unresolved
  /\ Len(rp_prs) = 2
  /\ \E k \in 1..2 : Lower(rp_prs[k].state) = s_open /\ rp_prs[k].comments = <<>>
  /\ Len(printed) = 1
  /\ Len(printed[1].comments) = 1

-----------------------------------------------------------------------------
(* The cards of the page, written by build_html and rebuilt by buildCardView *)

\* the usernames that are integer-like property keys of a JavaScript object,
\* with their value
ArrayIndexKeys == ("7" :> 7) @@ ("42" :> 42)

\* the PRs whose code totals fetch_files_for_pr delivered
CodeKnownSets == { {}, {1, 2, 3, 4, 5, 6}, {1, 5, 6} }

\* a PR with the three totals: all known or all unknown
CodedPr(pr, known) ==
  [additions     |-> IF pr.number \in known THEN SomeInt(pr.number) ELSE NoInt,
   deletions     |-> IF pr.number \in known THEN SomeInt(0) ELSE NoInt,
   changed_files |-> IF pr.number \in known THEN SomeInt(1) ELSE NoInt] @@ pr

\* users_prs of the one repository, in the order the keys were inserted
CardUsers ==
  { << User("alice", <<pr1, pr2>>),      User("bob", <<pr3>>) >>,
    << User("alice", <<pr2, pr6>>),      User("42", <<pr5>>) >>,
    << User("42", <<pr3, pr6, pr1>>),    User("alice", <<>>) >>,
    << User("bob", <<pr4>>),             User("7", <<pr5, pr1>>) >>,
    << User("42", <<pr6, pr2>>),         User("7", <<pr4, pr3>>) >> }

CardDatasets ==
  { [i \in 1..Len(d) |->
       User(d[i].username, [j \in 1..Len(d[i].prs) |-> CodedPr(d[i].prs[j], known)])] :
    d \in CardUsers, known \in CodeKnownSets }

\* the filter specs the two pages are compared under
CardControls(users_prs) ==
  { [DefaultControls(users_prs, flags[1], flags[2]) EXCEPT !.states = st, !.sort = so] :
      flags \in CliFlags, st \in {{}, {s_open}}, so \in {"created", "unresolved"} }

\* ---- build_html: the code attributes of a card ----
\* data-code-known, data-additions, data-deletions, data-changed-files; an
\* attribute written as '' is NoInt
ServerCodeAttrs(pr) ==
  [code_known    |-> pr.additions # NoInt /\ pr.deletions # NoInt /\ pr.changed_files # NoInt,
   additions     |-> pr.additions,
   deletions     |-> pr.deletions,
   changed_files |-> pr.changed_files]

PrNumbered(users_prs, number) ==
  LET all == AllPrs(users_prs)
  IN all[CHOOSE i \in 1..Len(all) : all[i].number = number]

\* the page of build_html, every card with its code attributes
ServerPage(users_prs) ==
  LET d == build_html(users_prs)
      WithCode(card) == ServerCodeAttrs(PrNumbered(users_prs, card.pr_number)) @@ card
  IN [users |-> [i \in 1..Len(d.users) |->
                   [d.users[i] EXCEPT
                      !.cards = [j \in 1..Len(d.users[i].cards) |-> WithCode(d.users[i].cards[j])]]],
      repo_count |-> d.repo_count]

\* ---- buildCardView ----
\* Object.entries(users): the integer-like keys first, in ascending order,
\* then the other keys in insertion order
ObjectEntries(users_prs) ==
  LET IsIndex(u) == u.username \in DOMAIN ArrayIndexKeys
      indexed == SelectSeq(users_prs, IsIndex)
      keyed == SortByKey([i \in 1..Len(indexed) |->
                            [k |-> <<ArrayIndexKeys[indexed[i].username]>>, v |-> indexed[i]]])
  IN [i \in 1..Len(keyed) |-> keyed[i].v] \o SelectSeq(users_prs, LAMBDA u : ~IsIndex(u))

\* rankMap[(pr.state || '').toLowerCase()] ?? 2, -parseTs(created_at), -number
prSortKey(pr) ==
  <<IF Lower(pr.state) = s_open THEN 0 ELSE IF Lower(pr.state) = s_merged THEN 1 ELSE 2,
    0 - ParseTs(pr.created_at),
    0 - pr.number>>

\* the difference of the first components that differ, 0 when none does
prSortCompare(a, b) ==
  LET ka == prSortKey(a)
      kb == prSortKey(b)
      differ == {i \in 1..Len(ka) : ka[i] # kb[i]}
  IN IF differ = {} THEN 0
     ELSE LET i == CHOOSE x \in differ : \A y \in differ : x <= y
          IN ka[i] - kb[i]

RECURSIVE InsertByCompare(_, _)
InsertByCompare(sorted, e) ==
  IF sorted = <<>> THEN <<e>>
  ELSE IF prSortCompare(e, Head(sorted)) < 0 THEN <<e>> \o sorted
  ELSE <<Head(sorted)>> \o InsertByCompare(Tail(sorted), e)

RECURSIVE ArraySort(_)
\* [...list].sort(prSortCompare): stable
ArraySort(list) ==
  IF list = <<>> THEN <<>>
  ELSE InsertByCompare(ArraySort(SubSeq(list, 1, Len(list) - 1)), list[Len(list)])

\* one .pr-card of buildCardView with its data attributes
ClientCard(pr, username) ==
  LET allComments == pr.comments
      parentComments == SelectSeq(allComments, LAMBDA cm : ~cm.is_reply)
      unresolvedCount == Len(SelectSeq(parentComments, LAMBDA cm : cm.resolved = R_FALSE))
      resolvedCount == Len(SelectSeq(parentComments, LAMBDA cm : cm.resolved = R_TRUE))
      issueLabels ==
        Dedup(SelectSeq(ConcatAll([i \in 1..Len(pr.issues) |-> pr.issues[i].labels]),
                        LAMBDA lab : lab # ""))
      codeKnown == pr.additions # NoInt /\ pr.deletions # NoInt /\ pr.changed_files # NoInt
      items == ReviewItems(allComments)
  IN [pr_number        |-> pr.number,
      username         |-> username,
      state            |-> Lower(pr.state),
      total_comments   |-> Len(allComments),
      unresolved_count |-> unresolvedCount,
      resolved_count   |-> resolvedCount,
      code_known       |-> codeKnown,
      additions        |-> IF codeKnown THEN pr.additions ELSE NoInt,
      deletions        |-> IF codeKnown THEN pr.deletions ELSE NoInt,
      changed_files    |-> IF codeKnown THEN pr.changed_files ELSE NoInt,
      created          |-> pr.created_at,
      updated          |-> pr.updated_at,
      issue_labels     |-> issueLabels,
      pr_type          |-> _infer_pr_type(pr.title),
      target           |-> pr.target_branch,
      display          |-> TRUE,
      items            |-> items,
      groups_shown     |-> ItemGroups(items),
      empty_all        |-> IF Len(allComments) = 0 THEN "shown" ELSE "absent",
      empty_unresolved |-> FALSE]

buildCardView(users_prs) ==
  LET entries == SelectSeq(ObjectEntries(users_prs), LAMBDA u : Len(u.prs) # 0)
      blocks == [i \in 1..Len(entries) |->
                   LET sorted == ArraySort(entries[i].prs)
                   IN [username |-> entries[i].username,
                       display  |-> TRUE,
                       count    |-> Len(entries[i].prs),
                       cards    |-> [j \in 1..Len(sorted) |->
                                       ClientCard(sorted[j], entries[i].username)]]]
  IN [users |-> blocks, repo_count |-> Len(AllPrs(users_prs))]

\* ---- the two pages side by side ----
InitCards ==
  /\ cv_data \in CardDatasets
  /\ cv_ctl \in CardControls(cv_data)
  /\ cv_server = <<>>
  /\ cv_client = <<>>
  /\ cv_pc = [server |-> "none", client |-> "none"]
  /\ IdleNotCards

\* the generator writes the page
ServerRenders ==
  /\ cv_pc.server = "none"
  /\ cv_server' = ServerPage(cv_data)
  /\ cv_pc' = [cv_pc EXCEPT !.server = "built"]
  /\ UNCHANGED <<cv_data, cv_ctl, cv_client, notCards>>

\* the page script rebuilds the cards from the same data
ClientRebuilds ==
  /\ cv_pc.client = "none"
  /\ cv_client' = buildCardView(cv_data)
  /\ cv_pc' = [cv_pc EXCEPT !.client = "built"]
  /\ UNCHANGED <<cv_data, cv_ctl, cv_server, notCards>>

\* wrappedApply on the page the generator wrote
ServerPageFiltered ==
  /\ cv_pc.server = "built"
  /\ cv_server' = applyFilters(cv_server, cv_ctl)
  /\ cv_pc' = [cv_pc EXCEPT !.server = "filtered"]
  /\ UNCHANGED <<cv_data, cv_ctl, cv_client, notCards>>

\* wrappedApply on the rebuilt page
ClientPageFiltered ==
  /\ cv_pc.client = "built"
  /\ cv_client' = applyFilters(cv_client, cv_ctl)
  /\ cv_pc' = [cv_pc EXCEPT !.client = "filtered"]
  /\ UNCHANGED <<cv_data, cv_ctl, cv_server, notCards>>

NextCards ==
  \/ ServerRenders
  \/ ClientRebuilds
  \/ ServerPageFiltered
  \/ ClientPageFiltered

SpecCards == InitCards /\ [][NextCards]_vars

(* ---- C18 ---- *)
\* the values of a card the filters and the aggregates read
FilterValues(card) ==
  <<card.pr_number, card.username, card.state, card.unresolved_count,
    card.resolved_count, card.total_comments, card.code_known, card.additions,
    card.deletions, card.changed_files, card.pr_type, card.issue_labels,
    card.target, card.created, card.updated>>

ValuesOf(cards) == [i \in 1..Len(cards) |-> FilterValues(cards[i])]

\* the cards of the page, in document order
PageValues(d) == ValuesOf(AllCards(d.users))

\* per user block the cards, in the order of the grid
BlockValues(d) == {<<d.users[i].username, ValuesOf(d.users[i].cards)>> : i \in 1..Len(d.users)}

ShownValues(d) == {FilterValues(c) : c \in {VisibleCards(d.users)[i] : i \in 1..Len(VisibleCards(d.users))}}

BothAt(pc) == cv_pc.server = pc /\ cv_pc.client = pc

\* the same filter spec shows the same cards and gives the same aggregates
SameFilterResult ==
  BothAt("filtered") =>
    /\ ShownValues(cv_server) = ShownValues(cv_client)
    /\ cv_server.repo_count = cv_client.repo_count
    /\ refreshStats(cv_server) = refreshStats(cv_client)
    /\ refreshIssueView(cv_server) = refreshIssueView(cv_client)
    /\ refreshReceivedView(cv_server) = refreshReceivedView(cv_client)
    /\ BlockValues(cv_server) = BlockValues(cv_client)

\* C18, as stated: the cards of build_html and of buildCardView carry the
\* same filter-relevant values per PR in the same initial order, and the same
\* filter spec gives the same visible set and the same aggregates on both.
C18_ServerAndClientPagesAgree ==
  /\ BothAt("built") => PageValues(cv_server) = PageValues(cv_client)
  /\ SameFilterResult

\* C18, as the code has it: the cards of build_html and of buildCardView
\* carry the same filter-relevant values per PR, in the same order within
\* every user block, and the same filter spec gives the same visible set and
\* the same aggregates on both; the order of the user blocks is left open.
C18_CardsAgreeWithinUserBlocks ==
  /\ BothAt("built") => BlockValues(cv_server) = BlockValues(cv_client)
  /\ SameFilterResult

\* both pages filtered, for two users with PRs, one of them with an
\* integer-like name: two PRs tie on created_at, a card has its code totals
\* and another has none, and a card is hidden by the filter
C18_Witness ==
  /\ BothAt("filtered")
  /\ Len(cv_server.users) = 2
  /\ \E i \in 1..2 : cv_data[i].username \in DOMAIN ArrayIndexKeys
  /\ \E i \in 1..2 : \E j, k \in 1..Len(cv_data[i].prs) :
        /\ j # k
        /\ cv_data[i].prs[j].created_at = cv_data[i].prs[k].created_at
  /\ \E i, j \in 1..Len(CardsOf(cv_client)) :
        CardsOf(cv_client)[i].code_known /\ ~CardsOf(cv_client)[j].code_known
  /\ \E i \in 1..Len(CardsOf(cv_client)) : ~CardsOf(cv_client)[i].display
  /\ \E i \in 1..Len(CardsOf(cv_client)) : CardsOf(cv_client)[i].display

-----------------------------------------------------------------------------
(* The throttle gate of the page script: throttleRequest, noteRateLimit,    *)
(* noteSuccess and the retry loop of fetchJson.  Time is counted in ticks;  *)
(* a timer fires at its due time or later.                                  *)

NumWorkers == 2              \* workers that call fetchJson, once each
MaxTime == 7                 \* no response takes longer than up to here
baseRequestIntervalMs == 2   \* ticks (the code has 1200 ms)
IntervalCap == 4             \* ticks (the code has 8000 ms)
BoostStep == 1               \* ticks (the code has 400 ms)
RecoverStep == 1             \* ticks (the code has 200 ms)
StreakToRecover == 2         \* successes in a row (the code has 20)
MinRetryAfter == 2           \* ticks (the code has 5 s)
DefaultRetryAfter == 3       \* ticks (the code has 60 s)
MaxJitter == 1               \* ticks (the code has less than 300 ms)
maxRetry == 2                \* attempts of fetchJson (the code has 4)
RetryBackoff == 1            \* ticks (the code has 1000 ms and 800 ms)

Workers == 1..NumWorkers
\* Date.now() when the page starts fetching: far from 0
StartTime == IntervalCap + 1
\* the Retry-After header: absent, below the minimum, above it
RetryAfterHeaders == {NoInt, SomeInt(1), SomeInt(3)}

Max(a, b) == IF a >= b THEN a ELSE b
Min(a, b) == IF a <= b THEN a ELSE b

\* updateInterval: clamp, then assign
updateInterval(nextMs) == Min(Max(nextMs, baseRequestIntervalMs), IntervalCap)

\* Math.max(parseInt(resp.headers.get('Retry-After') || '60', 10) || 60, 5)
RetryAfterOf(raw) ==
  Max(IF raw = NoInt \/ raw = SomeInt(0) THEN DefaultRetryAfter ELSE raw[1], MinRetryAfter)

\* `await prev`: the caller goes on when the gate before its own is resolved
PrevSettled_always(prev, settled) == TRUE
PrevSettled(prev, settled) == prev \in settled

InitThrottle ==
  /\ th_now = StartTime
  /\ lastRequestAt = 0
  /\ rateLimitUntil = 0
  /\ requestIntervalMs = baseRequestIntervalMs
  /\ successStreak = 0
  /\ throttleQueue = 0
  /\ th_settled = {0}
  /\ th_w = [w \in Workers |->
               [pc |-> "idle", attempt |-> 0, wake |-> 0, prev |-> 0, gate |-> 0,
                interval |-> 0, until |-> 0]]
  /\ th_log = [arrivals |-> <<>>, admitted |-> <<>>, released |-> <<>>, noted |-> <<>>]
  /\ IdleNotThrottle

\* the worker's call has a timer pending
Waiting(w) == th_w[w].pc \in {"cooling", "spacing", "backoff"}
Due(w) == th_now >= th_w[w].wake

\* the worker's request is under way: the gate is behind it
InFlight(rec) ==
  [rec EXCEPT !.pc = "inflight", !.wake = 0, !.prev = 0, !.gate = 0,
              !.interval = 0, !.until = 0]

\* throttleRequest after the cool-down: waitMs, then either the second wait
\* or lastRequestAt = Date.now() and the release
AfterCoolDown(w, until_seen) ==
  LET waitMs == lastRequestAt + requestIntervalMs - th_now
  IN IF waitMs > 0
     THEN [th_w[w] EXCEPT !.pc = "spacing", !.wake = th_now + waitMs,
                          !.interval = requestIntervalMs, !.until = until_seen]
     ELSE InFlight(th_w[w])

\* the history keeps the last two releases: who, when, the interval and the
\* deadline the caller read, and the deadline at the release; the request is
\* issued right after the release
Released(w, interval, until_seen) ==
  LET entry == [w |-> w, at |-> th_now, interval |-> interval,
                until_seen |-> until_seen, until |-> rateLimitUntil]
  IN IF th_log.released = <<>> THEN <<entry>>
     ELSE <<th_log.released[Len(th_log.released)], entry>>

\* fetchJson starts its first attempt: throttleRequest up to `await prev`
ThrottleCalled(w) ==
  /\ th_w[w].pc = "idle"
  /\ throttleQueue' = Len(th_log.arrivals) + 1
  /\ th_w' = [th_w EXCEPT ![w] = [@ EXCEPT !.pc = "queued", !.prev = throttleQueue,
                                           !.gate = Len(th_log.arrivals) + 1]]
  /\ th_log' = [th_log EXCEPT !.arrivals = Append(@, w)]
  /\ UNCHANGED <<th_now, lastRequestAt, rateLimitUntil, requestIntervalMs, successStreak,
                 th_settled, notThrottle>>

\* `await prev` returns: the cool-down test, and what follows when there is
\* nothing to wait for
Admitted(w) ==
  /\ th_w[w].pc = "queued"
  /\ PrevSettled(th_w[w].prev, th_settled)
  /\ IF rateLimitUntil # 0 /\ th_now < rateLimitUntil
     THEN /\ th_w' = [th_w EXCEPT ![w] = [@ EXCEPT !.pc = "cooling", !.wake = rateLimitUntil,
                                                   !.until = rateLimitUntil]]
          /\ th_log' = [th_log EXCEPT !.admitted = Append(@, w)]
          /\ UNCHANGED <<lastRequestAt, th_settled>>
     ELSE /\ th_w' = [th_w EXCEPT ![w] = AfterCoolDown(w, rateLimitUntil)]
          /\ IF th_w'[w].pc = "inflight"
             THEN /\ lastRequestAt' = th_now
                  /\ th_settled' = th_settled \cup {th_w[w].gate}
                  /\ th_log' = [th_log EXCEPT
                                  !.admitted = Append(@, w),
                                  !.released = Released(w, requestIntervalMs, rateLimitUntil)]
             ELSE /\ th_log' = [th_log EXCEPT !.admitted = Append(@, w)]
                  /\ UNCHANGED <<lastRequestAt, th_settled>>
  /\ UNCHANGED <<th_now, rateLimitUntil, requestIntervalMs, successStreak, throttleQueue,
                 notThrottle>>

\* wait(rateLimitUntil - now) is over
CoolDownOver(w) ==
  /\ th_w[w].pc = "cooling"
  /\ Due(w)
  /\ th_w' = [th_w EXCEPT ![w] = AfterCoolDown(w, th_w[w].until)]
  /\ IF th_w'[w].pc = "inflight"
     THEN /\ lastRequestAt' = th_now
          /\ th_settled' = th_settled \cup {th_w[w].gate}
          /\ th_log' = [th_log EXCEPT
                          !.released = Released(w, requestIntervalMs, th_w[w].until)]
     ELSE UNCHANGED <<lastRequestAt, th_settled, th_log>>
  /\ UNCHANGED <<th_now, rateLimitUntil, requestIntervalMs, successStreak, throttleQueue,
                 notThrottle>>

\* wait(waitMs) is over: lastRequestAt = Date.now(), release, fetch
SpacingOver(w) ==
  /\ th_w[w].pc = "spacing"
  /\ Due(w)
  /\ lastRequestAt' = th_now
  /\ th_settled' = th_settled \cup {th_w[w].gate}
  /\ th_w' = [th_w EXCEPT ![w] = InFlight(@)]
  /\ th_log' = [th_log EXCEPT
                  !.released = Released(w, th_w[w].interval, th_w[w].until)]
  /\ UNCHANGED <<th_now, rateLimitUntil, requestIntervalMs, successStreak, throttleQueue,
                 notThrottle>>

\* resp.ok: noteSuccess, return resp.json()
ResponseOk(w) ==
  /\ th_w[w].pc = "inflight"
  /\ IF successStreak + 1 >= StreakToRecover /\ requestIntervalMs > baseRequestIntervalMs
     THEN /\ requestIntervalMs' = updateInterval(requestIntervalMs - RecoverStep)
          /\ successStreak' = 0
     ELSE /\ successStreak' = successStreak + 1
          /\ UNCHANGED requestIntervalMs
  /\ th_w' = [th_w EXCEPT ![w] = [@ EXCEPT !.pc = "done"]]
  /\ UNCHANGED <<th_now, lastRequestAt, rateLimitUntil, throttleQueue, th_settled, th_log,
                 notThrottle>>

\* isRateLimitError: noteRateLimit(retryAfter), then the throw of the last
\* attempt or wait(retryAfter * 1000) and the next attempt
ResponseRateLimited(w) ==
  /\ th_w[w].pc = "inflight"
  /\ \E raw \in RetryAfterHeaders, jitter \in 0..MaxJitter :
       /\ successStreak' = 0
       /\ requestIntervalMs' =
            updateInterval(Max((requestIntervalMs * 3) \div 2, baseRequestIntervalMs + BoostStep))
       /\ rateLimitUntil' = Max(rateLimitUntil, th_now + RetryAfterOf(raw) + jitter)
       /\ th_log' = [th_log EXCEPT !.noted =
                       <<[at |-> th_now, header |-> raw,
                          before |-> rateLimitUntil, after |-> rateLimitUntil']>>]
       /\ IF th_w[w].attempt = maxRetry - 1
          THEN th_w' = [th_w EXCEPT ![w] = [@ EXCEPT !.pc = "failed"]]
          ELSE th_w' = [th_w EXCEPT ![w] = [@ EXCEPT !.pc = "backoff",
                                                     !.wake = th_now + RetryAfterOf(raw)]]
  /\ UNCHANGED <<th_now, lastRequestAt, throttleQueue, th_settled, notThrottle>>

\* a network error or a status of 500 and above: the throw of the last
\* attempt, or a wait that grows with the attempt and the next attempt
ResponseRetryable(w) ==
  /\ th_w[w].pc = "inflight"
  /\ IF th_w[w].attempt = maxRetry - 1
     THEN th_w' = [th_w EXCEPT ![w] = [@ EXCEPT !.pc = "failed"]]
     ELSE th_w' = [th_w EXCEPT ![w] = [@ EXCEPT !.pc = "backoff",
                                                !.wake = th_now + RetryBackoff * (th_w[w].attempt + 1)]]
  /\ UNCHANGED <<th_now, lastRequestAt, rateLimitUntil, requestIntervalMs, successStreak,
                 throttleQueue, th_settled, th_log, notThrottle>>

\* any other failure: throw
ResponseFatal(w) ==
  /\ th_w[w].pc = "inflight"
  /\ th_w' = [th_w EXCEPT ![w] = [@ EXCEPT !.pc = "failed"]]
  /\ UNCHANGED <<th_now, lastRequestAt, rateLimitUntil, requestIntervalMs, successStreak,
                 throttleQueue, th_settled, th_log, notThrottle>>

\* the wait before the next attempt is over: `continue`, throttleRequest up
\* to `await prev`
BackoffOver(w) ==
  /\ th_w[w].pc = "backoff"
  /\ Due(w)
  /\ throttleQueue' = Len(th_log.arrivals) + 1
  /\ th_w' = [th_w EXCEPT ![w] = [@ EXCEPT !.pc = "queued", !.attempt = @ + 1,
                                           !.prev = throttleQueue,
                                           !.gate = Len(th_log.arrivals) + 1]]
  /\ th_log' = [th_log EXCEPT !.arrivals = Append(@, w)]
  /\ UNCHANGED <<th_now, lastRequestAt, rateLimitUntil, requestIntervalMs, successStreak,
                 th_settled, notThrottle>>

\* time passes while a request is under way, up to MaxTime, and while a
\* timer is not yet due
Tick ==
  /\ \/ th_now < MaxTime /\ \E w \in Workers : th_w[w].pc = "inflight"
     \/ \E w \in Workers : Waiting(w) /\ ~Due(w)
  /\ th_now' = th_now + 1
  /\ UNCHANGED <<lastRequestAt, rateLimitUntil, requestIntervalMs, successStreak,
                 throttleQueue, th_settled, th_w, th_log, notThrottle>>

NextThrottle ==
  \/ \E w \in Workers : ThrottleCalled(w)
  \/ \E w \in Workers : Admitted(w)
  \/ \E w \in Workers : CoolDownOver(w)
  \/ \E w \in Workers : SpacingOver(w)
  \/ \E w \in Workers : ResponseOk(w)
  \/ \E w \in Workers : ResponseRateLimited(w)
  \/ \E w \in Workers : ResponseRetryable(w)
  \/ \E w \in Workers : ResponseFatal(w)
  \/ \E w \in Workers : BackoffOver(w)
  \/ Tick

SpecThrottle == InitThrottle /\ [][NextThrottle]_vars

\* the event loop runs every continuation that is ready and every timer that
\* is due, and the clock goes on
SpecThrottleFair ==
  /\ SpecThrottle
  /\ WF_vars(Tick)
  /\ \A w \in Workers :
       WF_vars(Admitted(w)) /\ WF_vars(CoolDownOver(w)) /\ WF_vars(SpacingOver(w))


(* ---- C19 ---- *)
\* the seconds a Retry-After header asks for (none when it is absent)
HeaderSeconds(raw) == IF raw = NoInt THEN 0 ELSE raw[1]

\* the deadline of a rate limit noted is at least the detection time plus
\* max(r, minimum), and is not before the deadline it replaces
DeadlineSound ==
  /\ \A i \in 1..Len(th_log.noted) :
       /\ th_log.noted[i].after >= th_log.noted[i].at
                                     + Max(HeaderSeconds(th_log.noted[i].header), MinRetryAfter)
       /\ th_log.noted[i].after >= th_log.noted[i].before
       /\ rateLimitUntil >= th_log.noted[i].after

\* C19, as stated: once a rate limit is noted, no request is issued before
\* the cool-down deadline rateLimitUntil, callers queued or waiting inside
\* the gate included; the deadline is at least the detection time plus
\* max(r, minimum) and never moves backward.
C19_NoRequestBeforeDeadline ==
  /\ \A i \in 1..Len(th_log.released) : th_log.released[i].at >= th_log.released[i].until
  /\ DeadlineSound

\* C19, as the code has it: a request is not issued before the deadline its
\* caller read when it passed the gate; a rate limit noted after that read
\* does not hold the caller back.  The deadline is at least the detection
\* time plus max(r, minimum) and never moves backward.
C19_CoolDownReadAtAdmission ==
  /\ \A i \in 1..Len(th_log.released) :
       th_log.released[i].at >= th_log.released[i].until_seen
  /\ DeadlineSound

\* a rate limit was noted, and the request released last waited for its
\* deadline
C19_Witness ==
  /\ th_log.noted # <<>>
  /\ th_log.released # <<>>
  /\ LET last == th_log.released[Len(th_log.released)]
     IN /\ last.until_seen = th_log.noted[1].after
        /\ last.at >= last.until_seen
        /\ last.at > th_log.noted[1].at

(* ---- C20 ---- *)
\* callers pass the gate in the order of their calls
AdmittedInArrivalOrder ==
  /\ Len(th_log.admitted) <= Len(th_log.arrivals)
  /\ \A i \in 1..Len(th_log.admitted) : th_log.admitted[i] = th_log.arrivals[i]

\* at most one caller is between `await prev` and its release
OneCallerInGate == Cardinality({w \in Workers : th_w[w].pc \in {"cooling", "spacing"}}) <= 1

\* of two releases in a row the later one is at least the interval after the
\* earlier one: requestIntervalMs as the later caller read it, which is never
\* below baseRequestIntervalMs
ReleasesSpaced ==
  Len(th_log.released) = 2 =>
    /\ th_log.released[2].at >= th_log.released[1].at + th_log.released[2].interval
    /\ th_log.released[2].interval >= baseRequestIntervalMs

AllItems(d) ==
  UNION {{CardsOf(d)[c].items[i] : i \in 1..Len(CardsOf(d)[c].items)} : c \in 1..Len(CardsOf(d))}

VisibleParents(d) == {it \in AllItems(d) : ~it.is_reply /\ it.display}

VisibleReplies(d) == {it \in AllItems(d) : it.is_reply /\ it.display}

\* the keyword of the page matches the text of a reply under this parent
ReplyMatchesKeyword(d, parent) ==
  \E it \in AllItems(d) :
     /\ it.is_reply /\ it.parent_id = <<parent.comment_id>>
     /\ matchWholeWord(it.body_text, Lower(Strip(controls.keyword)))

\* C28: once the filters are applied, with only_unresolved on no visible parent
\* comment is resolved, and with only_resolved on no visible parent comment is
\* unresolved, whatever the other filters are.
C28_ResolutionFiltersRespected ==
  FiltersApplied =>
    \A it \in VisibleParents(dom) :
       /\ controls.only_unresolved => ~it.resolved
       /\ controls.only_resolved => it.resolved

\* C28, as the page behaves: only_unresolved is respected by every pass; with
\* only_resolved on, an unresolved parent comment is visible only where one of
\* its replies matches the keyword, which every reply does while the keyword
\* is empty (the pass that shows such parents again asks for only_unresolved
\* alone).
C28_ResolvedOnlyUpToKeywordPass ==
  FiltersApplied =>
    \A it \in VisibleParents(dom) :
       /\ controls.only_unresolved => ~it.resolved
       /\ (controls.only_resolved /\ ~it.resolved) => ReplyMatchesKeyword(dom, it)

\* only_resolved is on, no keyword is typed, and an unresolved parent that has
\* a reply is on show
C28_Counterexample ==
  /\ FiltersApplied
  /\ controls.only_resolved /\ ~controls.only_unresolved
  /\ Strip(controls.keyword) = <<>>
  /\ \E it \in VisibleParents(dom) : ~it.resolved

\* only_unresolved is on with a keyword that matches a reply of a resolved
\* parent: that parent stays hidden
C28_Witness ==
  /\ FiltersApplied
  /\ controls.only_unresolved /\ ~controls.only_resolved
  /\ Strip(controls.keyword) # <<>>
  /\ \E it \in AllItems(dom) :
        ~it.is_reply /\ it.resolved /\ ~it.display /\ ReplyMatchesKeyword(dom, it)

\* C29: once the filters are applied, with hide_replies off every visible
\* reply that names a parent has that parent visible in its card, and with
\* hide_replies on no reply is visible.
C29_RepliesFollowParents ==
  FiltersApplied =>
    \A c \in 1..Len(CardsOf(dom)) :
       LET items == CardsOf(dom)[c].items
       IN \A r \in 1..Len(items) :
            (items[r].is_reply /\ items[r].display) =>
               /\ ~controls.hide_replies
               /\ items[r].parent_id # <<>> =>
                    \E p \in 1..Len(items) :
                       /\ ~items[p].is_reply /\ items[p].display
                       /\ <<items[p].comment_id>> = items[r].parent_id

\* a linked reply is on show under its parent while another parent of the
\* page is hidden together with its replies
C29_Witness ==
  /\ FiltersApplied
  /\ ~controls.hide_replies
  /\ \E it \in VisibleReplies(dom) : it.parent_id # <<>>
  /\ \E p \in AllItems(dom) :
        /\ ~p.is_reply /\ ~p.display
        /\ \E r \in AllItems(dom) : r.is_reply /\ r.parent_id = <<p.comment_id>> /\ ~r.display

\* hide_replies is on, parents are shown and no reply is
C29_WitnessHidden ==
  /\ FiltersApplied
  /\ controls.hide_replies
  /\ VisibleParents(dom) # {}
  /\ \E it \in AllItems(dom) : it.is_reply

\* the page as it would be with no target box ticked, all else equal
WithoutTargetLimit(d) == applyFilters(d, [controls EXCEPT !.targets = {}])

EveryTargetSelected ==
  /\ target_branches(dataset) # {}
  /\ controls.targets = target_branches(dataset)

EmptyTargetCards(d) ==
  {<<CardsOf(d)[i].username, CardsOf(d)[i].pr_number>> :
     i \in {j \in 1..Len(CardsOf(d)) : CardsOf(d)[j].target = ""}}

EmptySelectionsDropNothing ==
  \A i \in 1..Len(CardsOf(dom)) :
     /\ controls.targets = {} => targetAllowed(CardsOf(dom)[i], controls)
     /\ controls.labels = {} => issueAllowed(CardsOf(dom)[i], controls)
     /\ controls.types = {} => typeAllowed(CardsOf(dom)[i], controls)

\* C30: with every listed target branch selected the target filter drops no
\* PR, PRs without a target branch included, and an empty selection of
\* targets, issue labels or PR types drops no PR.
C30_FullSelectionConstrainsNothing ==
  FiltersApplied =>
    /\ EveryTargetSelected => ShownCards(dom) = ShownCards(WithoutTargetLimit(dom))
    /\ EmptySelectionsDropNothing

\* C30, as the page behaves: with every listed target branch selected the
\* page shows what it would show without a target limit, except the PRs whose
\* target branch is empty (they have no box to tick); empty selections drop
\* nothing.
C30_FullSelectionDropsEmptyTargets ==
  FiltersApplied =>
    /\ EveryTargetSelected =>
         ShownCards(dom) = ShownCards(WithoutTargetLimit(dom)) \ EmptyTargetCards(dom)
    /\ EmptySelectionsDropNothing

\* the page in its default state, every target ticked: a PR with a target is
\* shown and a PR without one is hidden although nothing else hides it
C30_Witness ==
  /\ FiltersApplied
  /\ EveryTargetSelected
  /\ ShownCards(dom) # {}
  /\ ShownCards(WithoutTargetLimit(dom)) \cap EmptyTargetCards(dom) # {}


(* ---- C27 ---- *)
\* the (name, additions, deletions) keys of the items of an answer
AnswerKeys(ans) == {ItemKey(en_variant, ans.items[i]) : i \in 1..Len(ans.items)}

\* the keys among them that count towards the totals
CountedKeys(keys) == {k \in keys : ExtOf(en_variant, k[1]) \in CODE_STAT_SUFFIXES}

RECURSIVE SumOfKeys(_, _)
SumOfKeys(keys, field) ==
  IF keys = {} THEN 0
  ELSE LET k == CHOOSE k \in keys : TRUE IN k[field] + SumOfKeys(keys \ {k}, field)

\* C27: the file listing issues at most FilesMaxPages page requests per PR; a
\* further page is requested only after an answer that is a list of exactly
\* FilesPerPage items holding a key not seen before; and each answer adds to
\* the totals only the keys not seen before, each once.
C27_FilePagesBounded ==
  [][ en_pc = "files" =>
        /\ f_page \in 1..FilesMaxPages
        /\ en_pc' = "files" =>
              /\ f_page' = f_page + 1
              /\ f_last'.kind = "list"
              /\ Len(f_last'.items) = FilesPerPage
              /\ AnswerKeys(f_last') \ seen_items # {}
        /\ f_last'.kind \in {"list", "dict"} =>
              LET fresh == AnswerKeys(f_last') \ seen_items
              IN /\ seen_items' = seen_items \cup fresh
                 /\ total_files' = total_files + Cardinality(CountedKeys(fresh))
                 /\ total_add' = total_add + SumOfKeys(CountedKeys(fresh), 2)
                 /\ total_del' = total_del + SumOfKeys(CountedKeys(fresh), 3) ]_vars

\* the last allowed page was requested and answered in full, with a key that
\* an earlier page had already delivered
C27_Witness ==
  /\ en_pc = "files_return"
  /\ f_page = FilesMaxPages + 1
  /\ f_last.kind = "list" /\ Len(f_last.items) = FilesPerPage
  /\ Cardinality(seen_items) < FilesMaxPages * FilesPerPage
  /\ total_files > 0

(* ---- C26 ---- *)
\* the listing under fair scheduling (a call that can take a step takes it),
\* for the configurations of one state and of all among several states
InitListFair ==
  /\ InitList
  /\ repo_states \in {<<"open">>, <<"open", "all">>}

SpecListFair == InitListFair /\ [][NextList]_vars /\ WF_vars(NextList)

\* the state a request under way, or the page in hand, was asked for
QueriedState == states[state_idx]

AllAmongSeveral == Len(repo_states) > 1 /\ \E i \in 1..Len(repo_states) : repo_states[i] = "all"

\* a page was requested and answered as a list of records
PageInHand == list_pc = "records"

\* the paging of one state: page n+1 follows page n only when page n held
\* per_page records, every other answer ends the state, and the next state
\* starts at page 1
PagingStep ==
  /\ (PageInHand /\ list_pc' # "records") =>
        IF data_len = per_page
        THEN page' = page + 1 /\ state_idx' = state_idx /\ list_pc' = "request"
        ELSE page' = 1 /\ (IF state_idx < Len(states)
                           THEN state_idx' = state_idx + 1 /\ list_pc' = "request"
                           ELSE list_pc' = "done")
  /\ (list_pc = "request" /\ list_pc' \in {"request", "done"}) =>
        page' = 1 /\ (list_pc' = "request" => state_idx' = state_idx + 1)
  /\ (list_pc = "request" /\ list_pc' = "records") =>
        page' = page /\ state_idx' = state_idx /\ data_len' \in 1..per_page
  /\ page' # page => page' \in {1, page + 1}

\* C26: pages are requested 1, 2, 3, ... per queried state, page n+1 only
\* after a page of exactly per_page records, a state ends at the first page
\* that is empty, not a list or short; when all is among several requested
\* states only all is queried; and the listing comes to an end.
C26_ListPaging ==
  /\ [][PagingStep]_vars
  /\ [](PageInHand /\ AllAmongSeveral => QueriedState = "all")
  /\ <>(list_pc \in {"done", "raised"})

\* C26, as the two copies behave: the paging and the termination as stated;
\* only the HTML generator's copy queries all alone, the CLI report's copy
\* queries every configured state in turn.
C26_ListPagingSiteCollapses ==
  /\ [][PagingStep]_vars
  /\ [](PageInHand /\ AllAmongSeveral /\ list_variant = "site" => QueriedState = "all")
  /\ [](PageInHand /\ list_variant = "multi" => QueriedState = repo_states[state_idx])
  /\ <>(list_pc \in {"done", "raised"})

\* a full page was followed by page 2 of the same state, in a run that
\* skipped a record as WIP or duplicate
C26_Witness ==
  /\ PageInHand
  /\ page = 2
  /\ per_page = MaxPerPage
  /\ Len(all_prs) < per_page
  /\ AllAmongSeveral

-----------------------------------------------------------------------------
(* The adaptive request interval: applyFetchTuning, updateInterval,
   noteSuccess, noteRateLimit.  The interval is kept in units of 1/Scale ms,
   so that the products by 1.5 stay whole numbers. *)

MaxRateLimits == 4     \* rate-limit events per behaviour
MaxStreak     == 22    \* successStreak is followed up to this value

Scale == 2 ^ MaxRateLimits
Ms(n) == n * Scale

DEFAULT_REQUEST_INTERVAL_MS == 1200   \* CLIENT_CONFIG carries no requestIntervalMs
MinIntervalMs == 500
MaxIntervalMs == 8000
RecoverMs     == 200
BoostMs       == 400
RecoverStreak == 20

\* parseInt(raw, 10): NoInt stands for NaN
ParseInt(raw) ==
  CASE raw.t = "num" -> SomeInt(raw.v)
    [] raw.t = "str" -> IF raw.v # <<>> /\ IsDigit(Head(raw.v))
                        THEN SomeInt(DigitsValue(raw.v, 0))
                        ELSE NoInt
    [] OTHER -> NoInt

\* clampInt
clampInt(raw, min, max, fallback) ==
  LET num == ParseInt(raw)
  IN IF num = NoInt THEN fallback ELSE Min(Max(num[1], min), max)

\* what the interval box of the page, or the stored tuning, may hold
TuningInputs ==
  { Absent, JStr(<<>>), JStr(<<"1","0","0">>), JStr(<<"9","0","0">>),
    JNum(1300), JStr(<<"9","0","0","0","x">>) }

\* A variant of updateInterval that leaves the base out of the clamp.
ClampedInterval_no_floor(nextMs, base) == Min(nextMs, Ms(MaxIntervalMs))

\* updateInterval: Math.min(Math.max(nextMs, baseRequestIntervalMs), 8000)
ClampedInterval(nextMs, base) == Min(Max(nextMs, base), Ms(MaxIntervalMs))

\* `let baseRequestIntervalMs = DEFAULT_REQUEST_INTERVAL_MS; ...`
InitTuning ==
  /\ tn_base = Ms(DEFAULT_REQUEST_INTERVAL_MS)
  /\ tn_interval = Ms(DEFAULT_REQUEST_INTERVAL_MS)
  /\ tn_streak = 0
  /\ tn_event = "load"
  /\ tn_since = 0
  /\ tn_limits = 0
  /\ IdleNotTuning

\* applyFetchTuning: at load with the stored tuning, on the apply button with
\* the text of the interval box, on the reset button with {}
ApplyFetchTuning ==
  /\ tn_event # "idle"
  /\ \E raw \in TuningInputs :
       LET next == clampInt(raw, MinIntervalMs, MaxIntervalMs, DEFAULT_REQUEST_INTERVAL_MS)
       IN /\ tn_base' = Ms(next)
          /\ tn_interval' = Ms(next)
  /\ tn_streak' = 0
  /\ tn_event' = "tuning"
  /\ tn_since' = 0
  /\ UNCHANGED <<tn_limits, notTuning>>

\* noteSuccess
NoteSuccess ==
  /\ tn_event # "idle"
  /\ tn_streak < MaxStreak
  /\ IF tn_streak + 1 >= RecoverStreak /\ tn_interval > tn_base
     THEN /\ tn_interval' = ClampedInterval(tn_interval - Ms(RecoverMs), tn_base)
          /\ tn_streak' = 0
     ELSE /\ tn_interval' = tn_interval
          /\ tn_streak' = tn_streak + 1
  /\ tn_since' = IF tn_interval' < tn_interval THEN 0 ELSE tn_since + 1
  /\ tn_event' = "success"
  /\ UNCHANGED <<tn_base, tn_limits, notTuning>>

\* noteRateLimit, the interval part
NoteRateLimit ==
  /\ tn_event # "idle"
  /\ tn_limits < MaxRateLimits
  /\ tn_streak' = 0
  /\ LET boosted == Max((tn_interval * 3) \div 2, tn_base + Ms(BoostMs))
     IN tn_interval' = ClampedInterval(boosted, tn_base)
  /\ tn_event' = "ratelimit"
  /\ tn_since' = 0
  /\ tn_limits' = tn_limits + 1
  /\ UNCHANGED <<tn_base, notTuning>>

NextTuning ==
  \/ ApplyFetchTuning
  \/ NoteSuccess
  \/ NoteRateLimit

SpecTuning == InitTuning /\ [][NextTuning]_vars

(* ---- C25 ---- *)
IntervalInRange ==
  /\ tn_base >= Ms(MinIntervalMs) /\ tn_base <= Ms(MaxIntervalMs)
  /\ tn_interval >= tn_base /\ tn_interval <= Ms(MaxIntervalMs)

\* a rate-limit event: the interval does not go down, the streak restarts,
\* and the interval is max(1.5 x current, base + 400), at most 8000
RateLimitRaises ==
  tn_limits' # tn_limits =>
     /\ tn_interval' >= tn_interval
     /\ tn_streak' = 0
     /\ 2 * tn_interval' =
          Min(Max(3 * tn_interval, 2 * (tn_base + Ms(BoostMs))), 2 * Ms(MaxIntervalMs))

\* C25: base within [500, 8000] and the interval within [base, 8000]; a
\* rate-limit event never lowers the interval, sets the streak to 0 and raises
\* the interval to max(1.5 x current, base + 400) capped at 8000; the interval
\* goes down only by 200 ms at a time, only after at least 20 successes since
\* the last rate-limit event or decrease, and never below the base.
C25_IntervalAdapts ==
  /\ []IntervalInRange
  /\ [][RateLimitRaises]_vars
  /\ [][ tn_interval' < tn_interval =>
           /\ tn_interval - tn_interval' = Ms(RecoverMs)
           /\ tn_since + 1 >= RecoverStreak
           /\ tn_interval' >= tn_base' ]_vars

\* C25, as the page behaves: the ranges and the rate-limit rule as stated; a
\* success lowers the interval after at least 20 successes since the last
\* rate-limit event, decrease or tuning change, by 200 ms or by what is left
\* above the base if that is less; a tuning change sets base and interval to
\* the value of the box clamped to [500, 8000], whatever the interval was.
C25_IntervalAdaptsDownToBase ==
  /\ []IntervalInRange
  /\ [][RateLimitRaises]_vars
  /\ [][ tn_interval' < tn_interval =>
           IF tn_event' = "tuning"
           THEN tn_interval' = tn_base' /\ tn_streak' = 0
           ELSE /\ tn_event' = "success"
                /\ tn_base' = tn_base
                /\ tn_interval - tn_interval' = Min(Ms(RecoverMs), tn_interval - tn_base)
                /\ tn_since + 1 >= RecoverStreak
                /\ tn_streak' = 0 ]_vars

\* after two rate-limit events the successes brought the interval back to
\* the default base
C25_Witness ==
  /\ tn_event = "success"
  /\ tn_since = 0
  /\ tn_limits >= 2
  /\ tn_base = Ms(DEFAULT_REQUEST_INTERVAL_MS)
  /\ tn_interval = tn_base

-----------------------------------------------------------------------------
(* Live refresh of the page: createLimiter, fetchRepoUserData, fetchAllData,
   refreshFromApi and the two config buttons.  One repository is configured;
   a (repo, user) task is named by the position of its user.  A request is
   one step: the listing of a user settles with the number of PRs kept or
   with an error, the enrichment of a PR settles (its three fetchers catch
   their errors). *)

MaxRefreshes  == 2     \* refreshFromApi calls per behaviour
MaxPrsPerUser == 2     \* PRs a listing returns
MaxLimit      == 2     \* repoConcurrency and detailConcurrency are 1..MaxLimit

RefreshIds == 1..MaxRefreshes

\* the users of the generated page, and what the config box may be set to
PageUsers == <<"u1", "u2">>
ConfigUsers == { <<>>, <<"u4">> }

EmptyLimiter == [active |-> 0, queue |-> <<>>, started |-> <<>>, submitted |-> <<>>]

\* A variant of runNext that starts the next function whatever active is.
runNext_unlimited(lim, limit) ==
  IF lim.queue = <<>> THEN lim
  ELSE [lim EXCEPT !.active = @ + 1, !.queue = Tail(@),
                   !.started = Append(@, Head(lim.queue))]

\* runNext of createLimiter
runNext(lim, limit) ==
  IF lim.active >= limit \/ lim.queue = <<>> THEN lim
  ELSE [lim EXCEPT !.active = @ + 1, !.queue = Tail(@),
                   !.started = Append(@, Head(lim.queue))]

\* the function createLimiter returns: queue.push({fn, ...}); runNext()
Submit(lim, limit, fn) ==
  runNext([lim EXCEPT !.queue = Append(@, fn), !.submitted = Append(@, fn)], limit)

RECURSIVE SubmitAll(_, _, _)
SubmitAll(lim, limit, fns) ==
  IF fns = <<>> THEN lim
  ELSE SubmitAll(Submit(lim, limit, Head(fns)), limit, Tail(fns))

\* A variant of the two handlers that frees the slot and starts nothing.
Settled_no_next(lim, limit) == [lim EXCEPT !.active = @ - 1]

\* the then / catch handlers of runNext: active -= 1; ...; runNext()
Settled(lim, limit) == runNext([lim EXCEPT !.active = @ - 1], limit)

StartedSince(old, new) ==
  {new.started[j] : j \in (Len(old.started) + 1)..Len(new.started)}

\* the tasks a limiter just started are running
TasksStarted(tks, S) ==
  [t \in DOMAIN tks |->
     IF t \in S THEN [tks[t] EXCEPT !.st = "listing"] ELSE tks[t]]

DetailsStarted(tks, S) ==
  [t \in DOMAIN tks |->
     [tks[t] EXCEPT !.details =
        [i \in DOMAIN tks[t].details |->
           IF <<t, i>> \in S THEN "running" ELSE tks[t].details[i]]]]

\* the refresh state as one value
RefreshState ==
  [pc |-> rf_pc, tasks |-> rf_tasks, repo |-> rf_repo, det |-> rf_det,
   data |-> rf_data, btn |-> rf_btn, page |-> rf_page, cache |-> rf_cache]

\* refreshFromApi after `await fetchAllData(...)`: the try block draws and
\* stores the data, the catch block reports, the finally block frees the button
RefreshEnds(S, r, ok) ==
  IF S.pc[r] # "fetching" THEN S
  ELSE IF ok
  THEN [S EXCEPT !.pc[r] = "rendered",
                 !.page = [by |-> r, data |-> S.data[r]],
                 !.cache = [by |-> r, data |-> S.data[r]],
                 !.btn = FALSE]
  ELSE [S EXCEPT !.pc[r] = "failed", !.btn = FALSE]

AllResolved(tks) == \A t \in DOMAIN tks : tks[t].st = "resolved"

\* the function handed to repoLimiter returns: data[repoName][username] = prs,
\* the slot is freed, and Promise.all(tasks) resolves after the last task
TaskResolved(S, r, t, k) ==
  LET repo1 == Settled(S.repo[r], rf_limit.repo)
      tasks1 == TasksStarted([S.tasks[r] EXCEPT ![t].st = "resolved"],
                             StartedSince(S.repo[r], repo1))
      S1 == [S EXCEPT !.data[r] = (S.tasks[r][t].user :> k) @@ @,
                      !.repo[r] = repo1,
                      !.tasks[r] = tasks1]
  IN IF AllResolved(tasks1) THEN RefreshEnds(S1, r, TRUE) ELSE S1

\* fetchPrsForUser throws: the function handed to repoLimiter rejects, the
\* slot is freed, Promise.all(tasks) rejects
TaskRejected(S, r, t) ==
  LET repo1 == Settled(S.repo[r], rf_limit.repo)
      tasks1 == TasksStarted([S.tasks[r] EXCEPT ![t].st = "rejected"],
                             StartedSince(S.repo[r], repo1))
  IN RefreshEnds([S EXCEPT !.repo[r] = repo1, !.tasks[r] = tasks1], r, FALSE)

\* fetchRepoUserData after the listing: prs.map((pr) => detailLimiter(...))
DetailsSubmitted(S, r, t, k) ==
  LET det1 == SubmitAll(S.det[r], rf_limit.detail, [i \in 1..k |-> <<t, i>>])
      tasks1 == [S.tasks[r] EXCEPT ![t].st = "details",
                                   ![t].details = [i \in 1..k |-> "queued"]]
  IN [S EXCEPT !.det[r] = det1,
               !.tasks[r] = DetailsStarted(tasks1, StartedSince(S.det[r], det1))]

\* the function handed to detailLimiter returns
DetailResolved(S, r, t, i) ==
  LET det1 == Settled(S.det[r], rf_limit.detail)
      tasks1 == DetailsStarted([S.tasks[r] EXCEPT ![t].details[i] = "done"],
                               StartedSince(S.det[r], det1))
      S1 == [S EXCEPT !.det[r] = det1, !.tasks[r] = tasks1]
  IN IF \A j \in DOMAIN tasks1[t].details : tasks1[t].details[j] = "done"
     THEN TaskResolved(S1, r, t, Len(tasks1[t].details))
     ELSE S1

\* refreshFromApi up to `await fetchAllData(...)`, and fetchAllData up to
\* `await Promise.all(tasks)`; with no user fetchAllData returns {} at once
Called(S, r, users) ==
  LET repo1 == SubmitAll(EmptyLimiter, rf_limit.repo, [t \in 1..Len(users) |-> t])
      tasks0 == [t \in 1..Len(users) |->
                   [user |-> users[t], st |-> "queued", details |-> <<>>]]
      S1 == [S EXCEPT !.pc[r] = "fetching",
                      !.btn = TRUE,
                      !.repo[r] = repo1,
                      !.tasks[r] = TasksStarted(tasks0, StartedSince(EmptyLimiter, repo1))]
  IN IF users = <<>> THEN RefreshEnds(S1, r, TRUE) ELSE S1

InitRefresh ==
  /\ rf_users = PageUsers
  /\ rf_limit \in [repo : 1..MaxLimit, detail : 1..MaxLimit]
  /\ rf_btn = FALSE
  /\ rf_count = 0
  /\ rf_pc = [r \in RefreshIds |-> "none"]
  /\ rf_tasks = [r \in RefreshIds |-> <<>>]
  /\ rf_repo = [r \in RefreshIds |-> EmptyLimiter]
  /\ rf_det = [r \in RefreshIds |-> EmptyLimiter]
  /\ rf_data = [r \in RefreshIds |-> <<>>]
  /\ rf_page = [by |-> 0, data |-> <<>>]
  /\ rf_cache = [by |-> 0, data |-> <<>>]
  /\ IdleNotRefresh

\* the refresh button, which a running refresh has disabled
RefreshClicked ==
  /\ rf_count < MaxRefreshes /\ rf_pc # <<>>
  /\ ~rf_btn
  /\ rf_count' = rf_count + 1
  /\ rf_users' = rf_users
  /\ rf_pc' = Called(RefreshState, rf_count + 1, rf_users).pc
  /\ rf_tasks' = Called(RefreshState, rf_count + 1, rf_users).tasks
  /\ rf_repo' = Called(RefreshState, rf_count + 1, rf_users).repo
  /\ rf_det' = Called(RefreshState, rf_count + 1, rf_users).det
  /\ rf_data' = Called(RefreshState, rf_count + 1, rf_users).data
  /\ rf_btn' = Called(RefreshState, rf_count + 1, rf_users).btn
  /\ rf_page' = Called(RefreshState, rf_count + 1, rf_users).page
  /\ rf_cache' = Called(RefreshState, rf_count + 1, rf_users).cache
  /\ UNCHANGED <<rf_limit, notRefresh>>

\* configApplyBtn / configResetBtn: the users are replaced and refreshFromApi
\* is called, whether or not a refresh is running
ConfigApplied ==
  /\ rf_count < MaxRefreshes /\ rf_pc # <<>>
  /\ \E users \in ConfigUsers :
        /\ rf_users' = users
        /\ rf_pc' = Called(RefreshState, rf_count + 1, users).pc
        /\ rf_tasks' = Called(RefreshState, rf_count + 1, users).tasks
        /\ rf_repo' = Called(RefreshState, rf_count + 1, users).repo
        /\ rf_det' = Called(RefreshState, rf_count + 1, users).det
        /\ rf_data' = Called(RefreshState, rf_count + 1, users).data
        /\ rf_btn' = Called(RefreshState, rf_count + 1, users).btn
        /\ rf_page' = Called(RefreshState, rf_count + 1, users).page
        /\ rf_cache' = Called(RefreshState, rf_count + 1, users).cache
  /\ rf_count' = rf_count + 1
  /\ UNCHANGED <<rf_limit, notRefresh>>

Listing(r, t) == t \in DOMAIN rf_tasks[r] /\ rf_tasks[r][t].st = "listing"

AfterListing(r, t, k) ==
  IF k = 0 THEN TaskResolved(RefreshState, r, t, 0)
  ELSE DetailsSubmitted(RefreshState, r, t, k)

\* fetchPrsForUser returns k PRs (k after the date range was applied)
ListingOk(r, t) ==
  /\ Listing(r, t)
  /\ \E k \in 0..MaxPrsPerUser :
        /\ rf_pc' = AfterListing(r, t, k).pc
        /\ rf_tasks' = AfterListing(r, t, k).tasks
        /\ rf_repo' = AfterListing(r, t, k).repo
        /\ rf_det' = AfterListing(r, t, k).det
        /\ rf_data' = AfterListing(r, t, k).data
        /\ rf_btn' = AfterListing(r, t, k).btn
        /\ rf_page' = AfterListing(r, t, k).page
        /\ rf_cache' = AfterListing(r, t, k).cache
  /\ UNCHANGED <<rf_users, rf_limit, rf_count, notRefresh>>

\* a list request of fetchPrsForUser fails for good: fetchJson throws and
\* nothing between it and refreshFromApi catches
ListingFails(r, t) ==
  /\ Listing(r, t)
  /\ rf_pc' = TaskRejected(RefreshState, r, t).pc
  /\ rf_tasks' = TaskRejected(RefreshState, r, t).tasks
  /\ rf_repo' = TaskRejected(RefreshState, r, t).repo
  /\ rf_det' = TaskRejected(RefreshState, r, t).det
  /\ rf_data' = TaskRejected(RefreshState, r, t).data
  /\ rf_btn' = TaskRejected(RefreshState, r, t).btn
  /\ rf_page' = TaskRejected(RefreshState, r, t).page
  /\ rf_cache' = TaskRejected(RefreshState, r, t).cache
  /\ UNCHANGED <<rf_users, rf_limit, rf_count, notRefresh>>

\* the comments, issues and files of one PR are in: Promise.all(detailTasks)
DetailSettles(r, t, i) ==
  /\ t \in DOMAIN rf_tasks[r]
  /\ i \in DOMAIN rf_tasks[r][t].details
  /\ rf_tasks[r][t].details[i] = "running"
  /\ rf_pc' = DetailResolved(RefreshState, r, t, i).pc
  /\ rf_tasks' = DetailResolved(RefreshState, r, t, i).tasks
  /\ rf_repo' = DetailResolved(RefreshState, r, t, i).repo
  /\ rf_det' = DetailResolved(RefreshState, r, t, i).det
  /\ rf_data' = DetailResolved(RefreshState, r, t, i).data
  /\ rf_btn' = DetailResolved(RefreshState, r, t, i).btn
  /\ rf_page' = DetailResolved(RefreshState, r, t, i).page
  /\ rf_cache' = DetailResolved(RefreshState, r, t, i).cache
  /\ UNCHANGED <<rf_users, rf_limit, rf_count, notRefresh>>

TaskIds == 1..Len(PageUsers)
DetailIds == 1..MaxPrsPerUser

NextRefresh ==
  \/ RefreshClicked
  \/ ConfigApplied
  \/ \E r \in RefreshIds, t \in TaskIds : ListingOk(r, t)
  \/ \E r \in RefreshIds, t \in TaskIds : ListingFails(r, t)
  \/ \E r \in RefreshIds, t \in TaskIds, i \in DetailIds : DetailSettles(r, t, i)

SpecRefresh == InitRefresh /\ [][NextRefresh]_vars

\* a request that is under way settles: while one is, one of them does
RequestSettles ==
  \E r \in RefreshIds, t \in TaskIds :
     \/ ListingOk(r, t)
     \/ ListingFails(r, t)
     \/ \E i \in DetailIds : DetailSettles(r, t, i)

SpecRefreshFair == SpecRefresh /\ WF_vars(RequestSettles)

(* ---- C21 .. C24 ---- *)
Called1(r) == rf_pc[r] # "none"

TasksIn(r, sts) == {t \in DOMAIN rf_tasks[r] : rf_tasks[r][t].st \in sts}

\* the tasks that were started and have not settled
RunningTasks(r) == TasksIn(r, {"listing", "details"})

RunningDetails(r) ==
  {<<t, i>> \in (DOMAIN rf_tasks[r]) \X DetailIds :
      i \in DOMAIN rf_tasks[r][t].details /\ rf_tasks[r][t].details[i] = "running"}

AllSettled(r) == TasksIn(r, {"resolved", "rejected"}) = DOMAIN rf_tasks[r]

IsPrefixOf(a, b) == Len(a) <= Len(b) /\ a = SubSeq(b, 1, Len(a))

\* C21: the failure of one (repo, user) task of a live refresh is isolated:
\* the refresh is not aborted, the siblings complete and are drawn, and the
\* failing pair is recorded with an empty result.
C21_TaskFailureIsolated ==
  \A r \in RefreshIds :
     (AllSettled(r) /\ TasksIn(r, {"rejected"}) # {}) =>
        /\ rf_pc[r] = "rendered"
        /\ \A t \in DOMAIN rf_tasks[r] :
              /\ rf_tasks[r][t].user \in DOMAIN rf_data[r]
              /\ rf_tasks[r][t].st = "rejected" => rf_data[r][rf_tasks[r][t].user] = 0

\* C21, as the page behaves: a refresh with a failed task has failed as a
\* whole and has drawn nothing; its failed pairs have no entry in the data,
\* its other tasks still run and store their result in data that is dropped.
C21_TaskFailureAbortsRefresh ==
  \A r \in RefreshIds :
     /\ TasksIn(r, {"rejected"}) # {} =>
           /\ rf_pc[r] = "failed"
           /\ rf_page.by # r /\ rf_cache.by # r
     /\ \A t \in DOMAIN rf_tasks[r] :
           rf_tasks[r][t].user \in DOMAIN rf_data[r] <=> rf_tasks[r][t].st = "resolved"

\* one task of the first refresh failed, its sibling completed with PRs, and
\* the page still shows what it showed before
C21_Witness ==
  /\ AllSettled(1)
  /\ TasksIn(1, {"rejected"}) # {}
  /\ \E t \in TasksIn(1, {"resolved"}) : rf_data[1][rf_tasks[1][t].user] > 0
  /\ rf_page.by = 0

\* C22: once two refreshes have finished, the data drawn and cached is that
\* of the refresh triggered later, in whatever order they completed.
C22_LaterTriggeredWins ==
  (rf_count = 2 /\ rf_pc[1] \in {"rendered", "failed"} /\ rf_pc[2] = "rendered") =>
     rf_page.by = 2 /\ rf_cache.by = 2

\* C22, as the page behaves: every refresh that completes draws and caches
\* its own data over what is there, so the page holds the data of the refresh
\* that completed last, and nothing else changes page or cache.
C22_LastCompletedWins ==
  /\ [](rf_page = rf_cache)
  /\ [][ /\ \A r \in RefreshIds :
              (rf_pc[r] # "rendered" /\ rf_pc'[r] = "rendered") =>
                 rf_page' = [by |-> r, data |-> rf_data'[r]]
         /\ rf_page' # rf_page =>
              \E r \in RefreshIds : rf_pc[r] # "rendered" /\ rf_pc'[r] = "rendered" ]_vars

\* the refresh started by the config button while the first one ran has
\* completed first; the page shows the data of the first one
C22_Witness ==
  /\ rf_pc[1] = "rendered" /\ rf_pc[2] = "rendered"
  /\ rf_page.by = 1
  /\ rf_users # PageUsers

\* C23: a limiter never has more than limit functions started and not
\* settled, starts them in the order they were submitted, and frees a slot
\* once per settled function; so at most repoConcurrency tasks and at most
\* detailConcurrency enrichments are under way, each limit on its own.
C23_LimiterBounds ==
  \A r \in RefreshIds :
     /\ Cardinality(RunningTasks(r)) <= rf_limit.repo
     /\ Cardinality(RunningDetails(r)) <= rf_limit.detail
     /\ rf_repo[r].active = Cardinality(RunningTasks(r))
     /\ rf_det[r].active = Cardinality(RunningDetails(r))
     /\ IsPrefixOf(rf_repo[r].started, rf_repo[r].submitted)
     /\ IsPrefixOf(rf_det[r].started, rf_det[r].submitted)
     /\ rf_repo[r].submitted = [t \in DOMAIN rf_tasks[r] |-> t]

\* one task at a time, two enrichments at a time: both enrichments of the
\* running task are under way while the other task waits for the slot
C23_Witness ==
  /\ rf_limit.repo = 1 /\ rf_limit.detail = 2
  /\ Cardinality(RunningDetails(1)) = 2
  /\ TasksIn(1, {"queued"}) # {}

RefreshOver(r) == rf_pc[r] \in {"rendered", "failed"}

\* C24: if every request settles, a refresh that was started completes and
\* all its tasks settle (the enrichments queued inside a task do not block
\* it), and the refresh button is enabled when the refresh ends, whether it
\* drew the data or failed.
C24_RefreshCompletes ==
  /\ \A r \in RefreshIds : Called1(r) ~> (RefreshOver(r) /\ AllSettled(r))
  /\ [][ \A r \in RefreshIds : (~RefreshOver(r) /\ RefreshOver(r)') => ~rf_btn' ]_vars

\* with one slot in each limiter both tasks of a refresh listed two PRs and
\* the refresh drew them
C24_Witness ==
  /\ rf_limit.repo = 1 /\ rf_limit.detail = 1
  /\ rf_pc[1] = "rendered"
  /\ \A t \in DOMAIN rf_tasks[1] : Len(rf_tasks[1][t].details) = MaxPrsPerUser
  /\ ~rf_btn

InitInfer ==
  /\ raw_comment \in [resolved : ResolvedInputs, status : StatusInputs]
  /\ infer_site = "unset"
  /\ infer_multi = "unset"
  /\ infer_client = "unset"
  /\ infer_pc = "input"
  /\ IdleNotInfer

\* One raw comment is run through the three copies of the inference.
Infer ==
  /\ infer_pc = "input"
  /\ infer_site' = _infer_resolved(raw_comment)
  /\ infer_multi' = _infer_resolved_multi(raw_comment)
  /\ infer_client' = inferResolved(raw_comment)
  /\ infer_pc' = "done"
  /\ UNCHANGED <<raw_comment, notInfer>>

NextInfer == Infer

SpecInfer == InitInfer /\ [][NextInfer]_vars

(* ---- C7 ---- *)
\* The words the claim lists, with the case variants the inputs contain,
\* written out one by one (no lower-casing involved).
C7_TrueWords ==
  { w_true, <<"T","R","U","E">>, <<"T","r","u","e">>, w_1, w_yes,
    <<"Y","e","s">>, w_resolved, <<"R","e","s","o","l","v","e","d">> }
C7_FalseWords ==
  { w_false, <<"F","A","L","S","E">>, w_0, w_no, <<"N","O">>, w_unresolved,
    <<"U","n","r","e","s","o","l","v","e","d">> }
C7_StatusTrueWords ==
  { w_resolved, <<"R","E","S","O","L","V","E","D">>, w_done, <<"D","o","n","e">> }
C7_StatusFalseWords ==
  { w_unresolved, w_open, <<"O","p","e","n">>, w_todo, <<"T","O","D","O">> }

C7_ResolvedRecognised(c) ==
  \/ IsBool(c.resolved)
  \/ IsStr(c.resolved) /\ c.resolved.v \in C7_TrueWords \cup C7_FalseWords

C7_Expected(c) ==
  IF IsBool(c.resolved) THEN TriBool(c.resolved.v)
  ELSE IF IsStr(c.resolved) /\ c.resolved.v \in C7_TrueWords THEN R_TRUE
  ELSE IF IsStr(c.resolved) /\ c.resolved.v \in C7_FalseWords THEN R_FALSE
  ELSE IF IsStr(c.status) /\ c.status.v \in C7_StatusTrueWords THEN R_TRUE
  ELSE IF IsStr(c.status) /\ c.status.v \in C7_StatusFalseWords THEN R_FALSE
  ELSE Unknown

\* C7: for every raw comment the inference follows the ordered precedence
\* (boolean resolved, then recognised string resolved, then string status,
\* else unknown); a recognised `resolved` makes the result independent of
\* `status`; the two Python copies and the client copy return the same value.
C7_InferPrecedence ==
  infer_pc = "done" =>
    /\ infer_site = C7_Expected(raw_comment)
    /\ infer_multi = infer_site
    /\ infer_client = infer_site
    /\ C7_ResolvedRecognised(raw_comment) =>
         \A st \in StatusInputs :
            _infer_resolved([raw_comment EXCEPT !.status = st]) = infer_site

\* resolved="false" with status="resolved" has been inferred as false
C7_Witness ==
  /\ infer_pc = "done"
  /\ raw_comment = [resolved |-> JStr(w_false), status |-> JStr(w_resolved)]
  /\ infer_site = R_FALSE
  /\ infer_client = R_FALSE

=============================================================================
